---- MODULE Spec2Model ----
(***************************************************************************)
(* Model of typefinders of gst/typefind/gsttypefindfunctions.c: audio/mpeg  *)
(* (mp3_type_frame_length_from_header, mp3_type_find_at_offset and          *)
(* mp3_type_find), video/quicktime (qt_type_find), video/x-matroska         *)
(* (matroska_type_find), the MPEG-1 system stream (mpeg1_parse_header,      *)
(* mpeg1_sys_type_find) and the MPEG video elementary stream                *)
(* (mpeg_video_stream_type_find) and audio/x-wavpack (wavpack_type_find).   *)
(* A stream is a finite byte sequence of known or unknown length; one       *)
(* typefinder is run on it, one loop iteration per step.  Each typefinder   *)
(* has its own specification; the variables of the typefinders that do not  *)
(* run keep their initial values.                                           *)
(***************************************************************************)
EXTENDS Integers, Sequences, FiniteSets, TLC

VARIABLES
  stream,             \* the byte source behind the GstTypeFind handle
  pc,                 \* position in the typefind function that runs
  suggestion,         \* what was passed to gst_type_find_suggest, or None
  \* locals that several typefind functions have under the same name
  skipped, size,      \* outer scan: bytes skipped, bytes left in the window
  offset, found,      \* chain cursor, headers counted
  winLo,              \* value of skipped when the window was fetched
  \* mp3_type_find_at_offset and mp3_type_find
  phase,              \* which call of mp3_type_find_at_offset is running
  start_off,          \* argument of mp3_type_find_at_offset
  head_null,          \* head_data == NULL
  layer_l, channels_l, samplerate_l,   \* locals written by the header parser
  last_free_offset, last_free_framelen,
  prob, layer, mid_prob, mid_layer,    \* locals of mp3_type_find, which the
                                       \* scan writes through found_prob/found_layer
  \* one call of mp3_type_frame_length_from_header on its own
  p_header,           \* the four header bytes
  p_free_framelen,    \* possible_free_framelen
  p_result,           \* the result of the call, None before it
  \* qt_type_find
  tip,                \* the probability to suggest
  \* matroska_type_find
  len_mask, total,    \* the length marker bit, the header length
  n_byte,             \* n, the byte index
  \* mpeg1_sys_type_find
  packet_size,        \* the result of mpeg1_parse_header
  \* wavpack_type_find
  blocksize, left,    \* a guint32 as << high, low >> 16 bits, a gint32
  run, first          \* the number of the call that runs, the suggestion
                      \* of the first call

\* the variables by the function that owns them
sharedVars == << stream, pc, suggestion, skipped, size, offset, found, winLo >>

mp3Locals == << phase, start_off, head_null, layer_l, channels_l, samplerate_l,
                last_free_offset, last_free_framelen, prob, layer, mid_prob,
                mid_layer >>

parserVars == << p_header, p_free_framelen, p_result >>

qtLocals == << tip >>

matroskaLocals == << len_mask, n_byte, total >>

sysLocals == << packet_size >>

wvLocals == << blocksize, left, run, first >>

vars == << sharedVars, mp3Locals, parserVars, qtLocals, matroskaLocals,
           sysLocals, wvLocals >>

None == << >>

(***************************************************************************)
(* Machine arithmetic.  The integers of the model are 32 bits wide, so a   *)
(* guint32 is held as the integer with the same bit pattern (two's         *)
(* complement): a value of 2^31 or more is held as that value minus 2^32.  *)
(* \div rounds down and % is never negative, so shifting and masking read  *)
(* the same bits from either form.                                         *)
(***************************************************************************)
\* GST_READ_UINT32_BE of the four bytes b
GST_READ_UINT32_BE(b) ==
  (IF b[1] >= 128 THEN b[1] - 256 ELSE b[1]) * 16777216
    + b[2] * 65536 + b[3] * 256 + b[4]

Max(a, b) == IF a >= b THEN a ELSE b

(***************************************************************************)
(* Probability levels (GstTypeFindProbability)                             *)
(***************************************************************************)
GST_TYPE_FIND_MINIMUM == 1
GST_TYPE_FIND_POSSIBLE == 50
GST_TYPE_FIND_LIKELY == 80
GST_TYPE_FIND_NEARLY_CERTAIN == 99
GST_TYPE_FIND_MAXIMUM == 100

(***************************************************************************)
(* Header tables                                                           *)
(***************************************************************************)
mp3types_bitrates ==
  << << <<0, 32, 64, 96, 128, 160, 192, 224, 256, 288, 320, 352, 384, 416, 448, 0>>,
        <<0, 32, 48, 56, 64, 80, 96, 112, 128, 160, 192, 224, 256, 320, 384, 0>>,
        <<0, 32, 40, 48, 56, 64, 80, 96, 112, 128, 160, 192, 224, 256, 320, 0>> >>,
     << <<0, 32, 48, 56, 64, 80, 96, 112, 128, 144, 160, 176, 192, 224, 256, 0>>,
        <<0, 8, 16, 24, 32, 40, 48, 56, 64, 80, 96, 112, 128, 144, 160, 0>>,
        <<0, 8, 16, 24, 32, 40, 48, 56, 64, 80, 96, 112, 128, 144, 160, 0>> >> >>

mp3types_freqs ==
  << <<11025, 12000, 8000>>,
     <<22050, 24000, 16000>>,
     <<44100, 48000, 32000>> >>

\* the header fields, by the shifts of mp3_type_frame_length_from_header
\* (header & 0xffe00000) == 0xffe00000: the 11 top bits are set
HdrSync(header) == header \div 2097152 = -1
HdrMode(header) == (header \div 64) % 4
HdrPadding(header) == (header \div 512) % 2
HdrSamplerate(header) == (header \div 1024) % 4
HdrBitrate(header) == (header \div 4096) % 16
HdrLayer(header) == 4 - ((header \div 131072) % 4)
HdrVersion(header) == (header \div 524288) % 4

\* the result of an early return 0: out-parameters not written (put = FALSE)
Rejected(free) ==
  [length |-> 0, layer |-> 0, channels |-> 0, samplerate |-> 0,
   free |-> free, put |-> FALSE]

\* LengthFactor without the case of layer 3 in MPEG 2 and 2.5
LengthFactorOfLayer2(lay, version) == 144000

\* divisor of the frame length for layers 2 and 3
LengthFactor(lay, version) ==
  IF lay = 3 /\ version # 3 THEN 72000 ELSE 144000

\* free-format branch: the frame length is the inferred one plus the padding
FreeLength(header, possible_free_framelen) ==
  IF HdrLayer(header) = 1
    THEN HdrPadding(header) * 4 + possible_free_framelen
    ELSE HdrPadding(header) + possible_free_framelen

\* table branch: the frame length from the bitrate and the sample rate
TableLength(header) ==
  LET lay == HdrLayer(header)
      version == HdrVersion(header)
      samplerate == mp3types_freqs[IF version > 0 THEN version ELSE 1]
                                  [HdrSamplerate(header) + 1]
      bitrate == mp3types_bitrates[IF version = 3 THEN 1 ELSE 2][lay]
                                  [HdrBitrate(header) + 1]
  IN IF lay = 1
       THEN ((12000 * bitrate) \div samplerate + HdrPadding(header)) * 4
       ELSE HdrPadding(header)
            + (LengthFactor(lay, version) * bitrate) \div samplerate

\* mp3_type_frame_length_from_header: the returned length (a guint, held as
\* its bit pattern), the values put to the out-parameters and whether
\* *may_be_free_format was set.  *put_bitrate is left out: no caller reads it.
mp3_type_frame_length_from_header(header, possible_free_framelen) ==
  LET bitrate == HdrBitrate(header)
      lay == HdrLayer(header)
      version == HdrVersion(header)
      free == bitrate = 0 /\ possible_free_framelen = -1
  IN IF ~HdrSync(header) THEN Rejected(FALSE)
     ELSE IF HdrSamplerate(header) = 3 THEN Rejected(FALSE)
     ELSE IF bitrate = 15 \/ free THEN Rejected(free)
     ELSE IF lay = 4 THEN Rejected(FALSE)
     ELSE IF version = 1 THEN Rejected(FALSE)
     ELSE LET samplerate == mp3types_freqs[IF version > 0 THEN version ELSE 1]
                                          [HdrSamplerate(header) + 1]
              length == IF bitrate = 0
                          THEN FreeLength(header, possible_free_framelen)
                          ELSE TableLength(header)
          IN [length |-> length, layer |-> lay,
              channels |-> IF HdrMode(header) = 3 THEN 1 ELSE 2,
              samplerate |-> samplerate, free |-> FALSE,
              put |-> TRUE]

(***************************************************************************)
(* The stream and gst_type_find_peek / gst_type_find_get_length            *)
(*                                                                         *)
(* A stream is [len, known, hdrs, tags]: len bytes, all 0 except the       *)
(* 4-byte headers hdrs[p] at the positions p and the bytes "TAG" at the    *)
(* positions in tags; known tells whether the source reports its length.   *)
(***************************************************************************)
TagBytes == <<84, 65, 71>>

ByteAt(s, pos) ==
  IF \E p \in DOMAIN s.hdrs : p <= pos /\ pos < p + 4
    THEN LET p == CHOOSE q \in DOMAIN s.hdrs : q <= pos /\ pos < q + 4
         IN s.hdrs[p][pos - p + 1]
    ELSE IF \E t \in s.tags : t <= pos /\ pos < t + 3
      THEN LET t == CHOOSE q \in s.tags : q <= pos /\ pos < q + 3
           IN TagBytes[pos - t + 1]
      ELSE 0

BytesAt(s, pos, n) == [i \in 1..n |-> ByteAt(s, pos + i - 1)]

\* gst_type_find_peek (tf, off, n) != NULL: the whole span lies in the stream;
\* a negative off counts from the end and needs the length to be known
PeekOk(s, off, n) ==
  IF off >= 0
    THEN off + n <= s.len
    ELSE s.known /\ s.len + off >= 0 /\ s.len + off + n <= s.len

\* the position a peek at off reads from
PeekPos(s, off) == IF off >= 0 THEN off ELSE s.len + off

\* gst_type_find_get_length: 0 when the length is not known
gst_type_find_get_length(s) == IF s.known THEN s.len ELSE 0

(***************************************************************************)
(* mp3_type_find_at_offset                                                 *)
(***************************************************************************)
GST_MP3_TYPEFIND_MIN_HEADERS == 2
GST_MP3_TYPEFIND_TRY_HEADERS == 5
GST_MP3_TYPEFIND_TRY_SYNC == GST_TYPE_FIND_MAXIMUM * 100
GST_MP3_TYPEFIND_SYNC_SIZE == 2048

\* stands for every chain cursor the model's integers cannot hold (a guint64
\* of 2^31 or more): it is beyond every stream of the model, so every peek at
\* it fails, and with 64-bit pointers the in-place test fails as well
OffsetFar == 2^30

\* *found_prob and *found_layer: the caller's prob/layer or mid_prob/mid_layer
found_prob == IF phase = "start" THEN prob ELSE mid_prob
found_layer == IF phase = "start" THEN layer ELSE mid_layer

\* the do-while of the window fetch: halve the size until a peek succeeds or
\* the size is 10 or less; 0 stands for data == NULL
RECURSIVE PeekWindow(_, _, _)
PeekWindow(s, pos, sz) ==
  LET half == sz \div 2
  IN IF PeekOk(s, pos, half) THEN half
     ELSE IF half > 10 THEN PeekWindow(s, pos, half)
     ELSE 0

\* size after the "if (size <= 0)" block at the top of the outer loop
WindowSize == IF size <= 0
                THEN PeekWindow(stream, skipped + start_off,
                                GST_MP3_TYPEFIND_SYNC_SIZE * 2)
                ELSE size

\* the test that reads the header from the buffered window:
\* (gint64) (offset - skipped + 4) >= 0 && data + offset - skipped + 4 < data_end
InPlace == offset - skipped + 4 >= 0 /\ offset - skipped + 4 < size

\* the bytes head_data may point to.  In place, the window holds the stream's
\* bytes from winLo on; a read before winLo is outside the peeked memory and
\* may yield the stream's bytes or anything else.
HeadBytes ==
  IF InPlace
    THEN IF offset >= winLo
           THEN {BytesAt(stream, offset + start_off, 4)}
           ELSE {BytesAt(stream, offset + start_off, 4), <<0, 0, 0, 0>>,
                 <<255, 251, 144, 68>>}
    ELSE IF PeekOk(stream, offset + start_off, 4)
           THEN {BytesAt(stream, offset + start_off, 4)}
           ELSE {}

\* the test on the header just parsed against prev_layer, prev_samplerate
\* and prev_channels
HeaderChanged(prev_layer, prev_samplerate, prev_channels, r) ==
  \/ prev_layer # 0 /\ prev_layer # r.layer
  \/ prev_samplerate # 0 /\ prev_samplerate # r.samplerate
  \/ prev_channels # 0 /\ prev_channels # r.channels

\* AdvanceOffset with the 4 header bytes added to the frame length
AdvanceOffsetPastHeader(off, length) ==
  IF length < 0 \/ off + length + 4 >= OffsetFar
    THEN OffsetFar ELSE off + length + 4

\* offset += length, with length a guint held as its bit pattern
AdvanceOffset(off, length) ==
  IF length < 0 \/ off + length >= OffsetFar THEN OffsetFar ELSE off + length

\* what peek (tf, -128, 3) gives: "none" (NULL), "tag" or "other"
Trailer(s) ==
  IF ~PeekOk(s, -128, 3) THEN "none"
  ELSE IF BytesAt(s, PeekPos(s, -128), 3) = TagBytes THEN "tag"
  ELSE "other"

\* Probability without the test for "TAG"
ProbabilityKeepsTag(nfound, nskipped, start, trailer) ==
  LET p0 == ((nfound * GST_TYPE_FIND_MAXIMUM
              * (GST_MP3_TYPEFIND_TRY_SYNC - nskipped))
             \div GST_MP3_TYPEFIND_TRY_HEADERS) \div GST_MP3_TYPEFIND_TRY_SYNC
      p1 == IF p0 < GST_TYPE_FIND_MINIMUM THEN GST_TYPE_FIND_MINIMUM ELSE p0
      p2 == IF start > 0 THEN p1 \div 2 ELSE p1
  IN IF trailer = "none" THEN (p2 * 4) \div 5 ELSE p2

\* Probability with the halving for start_off > 0 done before the floor
ProbabilityHalvedFirst(nfound, nskipped, start, trailer) ==
  LET p0 == ((nfound * GST_TYPE_FIND_MAXIMUM
              * (GST_MP3_TYPEFIND_TRY_SYNC - nskipped))
             \div GST_MP3_TYPEFIND_TRY_HEADERS) \div GST_MP3_TYPEFIND_TRY_SYNC
      p1 == IF start > 0 THEN p0 \div 2 ELSE p0
      p2 == IF p1 < GST_TYPE_FIND_MINIMUM THEN GST_TYPE_FIND_MINIMUM ELSE p1
  IN IF trailer = "none" THEN (p2 * 4) \div 5
     ELSE IF trailer = "tag" THEN 0
     ELSE p2

\* the probability of an accepted chain
Probability(nfound, nskipped, start, trailer) ==
  LET p0 == ((nfound * GST_TYPE_FIND_MAXIMUM
              * (GST_MP3_TYPEFIND_TRY_SYNC - nskipped))
             \div GST_MP3_TYPEFIND_TRY_HEADERS) \div GST_MP3_TYPEFIND_TRY_SYNC
      p1 == IF p0 < GST_TYPE_FIND_MINIMUM THEN GST_TYPE_FIND_MINIMUM ELSE p0
      p2 == IF start > 0 THEN p1 \div 2 ELSE p1
  IN IF trailer = "none" THEN (p2 * 4) \div 5
     ELSE IF trailer = "tag" THEN 0
     ELSE p2

\* ChainAccepted with one header enough when the data ended
ChainAcceptedAnyHeader ==
  \/ found = GST_MP3_TYPEFIND_TRY_HEADERS
  \/ found >= 1 /\ head_null

\* "we can make a valid guess"
ChainAccepted ==
  \/ found = GST_MP3_TYPEFIND_TRY_HEADERS
  \/ found >= GST_MP3_TYPEFIND_MIN_HEADERS /\ head_null

mp3Unchanged == UNCHANGED << prob, layer, mid_prob, mid_layer, suggestion >>

\* the locals of mp3_type_find_at_offset on entry, called with start
EnterScan(start) ==
  /\ start_off' = start
  /\ skipped' = 0
  /\ size' = 0
  /\ winLo' = 0
  /\ offset' = 0
  /\ found' = 0
  /\ head_null' = TRUE
  /\ layer_l' = 0
  /\ channels_l' = 0
  /\ samplerate_l' = 0
  /\ last_free_offset' = -1
  /\ last_free_framelen' = -1

\* the while condition fails: TRY_SYNC bytes were tried
ScanExhausted ==
  /\ pc = "scan"
  /\ skipped >= GST_MP3_TYPEFIND_TRY_SYNC
  /\ pc' = "nomatch"
  /\ UNCHANGED << stream, phase, start_off, skipped, size, winLo, offset, found,
                  head_null, layer_l, channels_l, samplerate_l,
                  last_free_offset, last_free_framelen >>
  /\ mp3Unchanged

\* no window could be fetched: break
ScanNoData ==
  /\ pc = "scan"
  /\ skipped < GST_MP3_TYPEFIND_TRY_SYNC
  /\ WindowSize = 0
  /\ size' = 0
  /\ pc' = "nomatch"
  /\ UNCHANGED << stream, phase, start_off, skipped, winLo, offset, found,
                  head_null, layer_l, channels_l, samplerate_l,
                  last_free_offset, last_free_framelen >>
  /\ mp3Unchanged

\* *data != 0xFF: data++, skipped++, size--
ScanSkip ==
  /\ pc = "scan"
  /\ skipped < GST_MP3_TYPEFIND_TRY_SYNC
  /\ WindowSize > 0
  /\ ByteAt(stream, skipped + start_off) # 255
  /\ winLo' = IF size <= 0 THEN skipped ELSE winLo
  /\ size' = WindowSize - 1
  /\ skipped' = skipped + 1
  /\ UNCHANGED << stream, pc, phase, start_off, offset, found, head_null,
                  layer_l, channels_l, samplerate_l, last_free_offset,
                  last_free_framelen >>
  /\ mp3Unchanged

\* *data == 0xFF: enter the header-chain loop at this position
ScanSync ==
  /\ pc = "scan"
  /\ skipped < GST_MP3_TYPEFIND_TRY_SYNC
  /\ WindowSize > 0
  /\ ByteAt(stream, skipped + start_off) = 255
  /\ winLo' = IF size <= 0 THEN skipped ELSE winLo
  /\ size' = WindowSize
  /\ head_null' = TRUE
  /\ layer_l' = 0
  /\ channels_l' = 0
  /\ samplerate_l' = 0
  /\ found' = 0
  /\ offset' = skipped
  /\ pc' = "chain"
  /\ UNCHANGED << stream, phase, start_off, skipped, last_free_offset,
                  last_free_framelen >>
  /\ mp3Unchanged

\* the locals the chain loop leaves alone in every branch
chainFrame == << stream, phase, start_off, skipped, size, winLo >>

\* neither the window nor a peek gives the 4 header bytes: break
ChainNoData ==
  /\ pc = "chain"
  /\ HeadBytes = {}
  /\ head_null' = TRUE
  /\ pc' = "check"
  /\ UNCHANGED chainFrame
  /\ UNCHANGED << offset, found, layer_l, channels_l, samplerate_l,
                  last_free_offset, last_free_framelen >>
  /\ mp3Unchanged

\* the out-parameters layer, channels and samplerate after the parser ran
PutLocals(r) ==
  /\ layer_l' = IF r.put THEN r.layer ELSE layer_l
  /\ channels_l' = IF r.put THEN r.channels ELSE channels_l
  /\ samplerate_l' = IF r.put THEN r.samplerate ELSE samplerate_l

\* length == 0 and the header is no free-format candidate: break
ChainInvalid ==
  /\ pc = "chain"
  /\ \E b \in HeadBytes :
       LET r == mp3_type_frame_length_from_header(GST_READ_UINT32_BE(b),
                                                  last_free_framelen)
       IN /\ r.length = 0
          /\ ~r.free
          /\ PutLocals(r)
  /\ head_null' = FALSE
  /\ last_free_framelen' = -1
  /\ pc' = "check"
  /\ UNCHANGED chainFrame
  /\ UNCHANGED << offset, found, last_free_offset >>
  /\ mp3Unchanged

\* a free-format candidate while no offset is recorded: record it and break
ChainFreeFirst ==
  /\ pc = "chain"
  /\ \E b \in HeadBytes :
       LET r == mp3_type_frame_length_from_header(GST_READ_UINT32_BE(b),
                                                  last_free_framelen)
       IN /\ r.length = 0
          /\ r.free
          /\ PutLocals(r)
  /\ last_free_offset = -1
  /\ head_null' = FALSE
  /\ last_free_offset' = offset
  /\ pc' = "check"
  /\ UNCHANGED chainFrame
  /\ UNCHANGED << offset, found, last_free_framelen >>
  /\ mp3Unchanged

\* ChainFreeRestart that forgets the inferred frame length
ChainFreeRestartForgets ==
  /\ pc = "chain"
  /\ \E b \in HeadBytes :
       LET r == mp3_type_frame_length_from_header(GST_READ_UINT32_BE(b),
                                                  last_free_framelen)
       IN /\ r.length = 0
          /\ r.free
          /\ PutLocals(r)
  /\ last_free_offset # -1
  /\ head_null' = FALSE
  /\ last_free_framelen' = -1
  /\ offset' = last_free_offset
  /\ UNCHANGED chainFrame
  /\ UNCHANGED << pc, found, last_free_offset >>
  /\ mp3Unchanged

\* a free-format candidate with an offset recorded: infer the frame length,
\* move the cursor back to the recorded offset and continue
ChainFreeRestart ==
  /\ pc = "chain"
  /\ \E b \in HeadBytes :
       LET r == mp3_type_frame_length_from_header(GST_READ_UINT32_BE(b),
                                                  last_free_framelen)
       IN /\ r.length = 0
          /\ r.free
          /\ PutLocals(r)
  /\ last_free_offset # -1
  /\ head_null' = FALSE
  /\ last_free_framelen' = offset - last_free_offset
  /\ offset' = last_free_offset
  /\ UNCHANGED chainFrame
  /\ UNCHANGED << pc, found, last_free_offset >>
  /\ mp3Unchanged

\* a header with a length: count it unless it changed against prev_layer,
\* prev_samplerate, prev_channels, which are 0 at the top of every iteration
\* (they are declared inside the loop), and move the cursor by the length
ChainValid ==
  /\ pc = "chain"
  /\ \E b \in HeadBytes :
       LET r == mp3_type_frame_length_from_header(GST_READ_UINT32_BE(b),
                                                  last_free_framelen)
           nfound == IF HeaderChanged(0, 0, 0, r) THEN found ELSE found + 1
       IN /\ r.length # 0
          /\ PutLocals(r)
          /\ found' = nfound
          /\ offset' = AdvanceOffset(offset, r.length)
          /\ pc' = IF nfound < GST_MP3_TYPEFIND_TRY_HEADERS
                     THEN "chain" ELSE "check"
  /\ head_null' = FALSE
  /\ UNCHANGED chainFrame
  /\ UNCHANGED << last_free_offset, last_free_framelen >>
  /\ mp3Unchanged

\* after the chain loop: a valid guess; write *found_prob and *found_layer
\* and return
ChainAccept ==
  /\ pc = "check"
  /\ ChainAccepted
  /\ LET probability == Probability(found, skipped, start_off, Trailer(stream))
         lay == IF probability > 0 THEN layer_l ELSE found_layer
     IN IF phase = "start"
          THEN prob' = probability /\ layer' = lay
               /\ UNCHANGED << mid_prob, mid_layer >>
          ELSE mid_prob' = probability /\ mid_layer' = lay
               /\ UNCHANGED << prob, layer >>
  /\ head_null' = (Trailer(stream) = "none")
  /\ pc' = "guess"
  /\ UNCHANGED chainFrame
  /\ UNCHANGED << offset, found, layer_l, channels_l, samplerate_l,
                  last_free_offset, last_free_framelen, suggestion >>

\* after the chain loop: no guess; data++, skipped++, size--
ChainReject ==
  /\ pc = "check"
  /\ ~ChainAccepted
  /\ skipped' = skipped + 1
  /\ size' = size - 1
  /\ pc' = "scan"
  /\ UNCHANGED << stream, phase, start_off, winLo, offset, found, head_null,
                  layer_l, channels_l, samplerate_l, last_free_offset,
                  last_free_framelen >>
  /\ mp3Unchanged

(***************************************************************************)
(* mp3_type_find                                                           *)
(***************************************************************************)
\* mp3_type_find_at_offset has returned: "guess" from the return of the
\* valid-guess block, "nomatch" from the end of the function
Returned == pc \in {"guess", "nomatch"}

scanLocals == << start_off, skipped, size, winLo, offset, found, head_null,
                 layer_l, channels_l, samplerate_l, last_free_offset,
                 last_free_framelen >>

\* the caps of the suggestion: MP3_CAPS with the field "layer" set; no other
\* field of the header is put into them
Mp3Caps(lay) == [layer |-> lay]

\* a suggest label that takes the layer of the scan at the middle
SuggestMidLayer(p, lay) ==
  /\ prob' = p
  /\ layer' = lay
  /\ suggestion' = << p, mid_layer >>
  /\ pc' = "done"

\* the suggest label: gst_type_find_suggest (tf, prob, caps with layer)
Suggest(p, lay) ==
  /\ prob' = p
  /\ layer' = lay
  /\ suggestion' = << p, lay >>
  /\ pc' = "done"

\* length == 0 || length == (guint64) -1, after the scan at offset 0
LengthUnknown ==
  /\ Returned /\ phase = "start"
  /\ gst_type_find_get_length(stream) = 0
  /\ IF prob # 0
       THEN Suggest(prob, layer)
       ELSE pc' = "done" /\ UNCHANGED << prob, layer, suggestion >>
  /\ UNCHANGED << stream, phase, mid_prob, mid_layer >>
  /\ UNCHANGED scanLocals

\* prob >= GST_TYPE_FIND_LIKELY: skip the additional check
StartCertain ==
  /\ Returned /\ phase = "start"
  /\ gst_type_find_get_length(stream) # 0
  /\ prob >= GST_TYPE_FIND_LIKELY
  /\ Suggest(prob, layer)
  /\ UNCHANGED << stream, phase, mid_prob, mid_layer >>
  /\ UNCHANGED scanLocals

\* mp3_type_find_at_offset (tf, length / 2, &mid_layer, &mid_prob)
CallMid ==
  /\ Returned /\ phase = "start"
  /\ gst_type_find_get_length(stream) # 0
  /\ prob < GST_TYPE_FIND_LIKELY
  /\ phase' = "mid"
  /\ EnterScan(gst_type_find_get_length(stream) \div 2)
  /\ mid_prob' = 0
  /\ mid_layer' = 0
  /\ pc' = "scan"
  /\ UNCHANGED << stream, prob, layer, suggestion >>

\* detected audio/mpeg only in the middle
MidOnly ==
  /\ Returned /\ phase = "mid"
  /\ mid_prob > 0
  /\ prob = 0
  /\ Suggest(mid_prob, mid_layer)
  /\ UNCHANGED << stream, phase, mid_prob, mid_layer >>
  /\ UNCHANGED scanLocals

\* MidDiscrepancy going with the scan in the middle
MidDiscrepancySuggestsMiddle ==
  /\ Returned /\ phase = "mid"
  /\ mid_prob > 0
  /\ prob # 0
  /\ layer # mid_layer
  /\ Suggest(mid_prob, mid_layer)
  /\ UNCHANGED << stream, phase, mid_prob, mid_layer >>
  /\ UNCHANGED scanLocals

\* layer discrepancy: return without a suggestion
MidDiscrepancy ==
  /\ Returned /\ phase = "mid"
  /\ mid_prob > 0
  /\ prob # 0
  /\ layer # mid_layer
  /\ pc' = "done"
  /\ UNCHANGED << stream, phase, prob, layer, mid_prob, mid_layer, suggestion >>
  /\ UNCHANGED scanLocals

\* MidAverage taking the larger of the two probabilities
MidAverageTakesMax ==
  /\ Returned /\ phase = "mid"
  /\ mid_prob > 0
  /\ prob # 0
  /\ layer = mid_layer
  /\ Suggest(Max(prob, mid_prob), layer)
  /\ UNCHANGED << stream, phase, mid_prob, mid_layer >>
  /\ UNCHANGED scanLocals

\* MidAverage without the division by 2
MidAverageSum ==
  /\ Returned /\ phase = "mid"
  /\ mid_prob > 0
  /\ prob # 0
  /\ layer = mid_layer
  /\ Suggest(prob + mid_prob, layer)
  /\ UNCHANGED << stream, phase, mid_prob, mid_layer >>
  /\ UNCHANGED scanLocals

\* detected mpeg audio both in the middle of the file and at the start
MidAverage ==
  /\ Returned /\ phase = "mid"
  /\ mid_prob > 0
  /\ prob # 0
  /\ layer = mid_layer
  /\ Suggest((prob + mid_prob) \div 2, layer)
  /\ UNCHANGED << stream, phase, mid_prob, mid_layer >>
  /\ UNCHANGED scanLocals

\* prob and layer after "let's see if there's a valid header right at the
\* start": the parser is called with possible_free_framelen 0 and writes layer
StartHeader(s, p, lay) ==
  IF PeekOk(s, 0, 4)
    THEN LET r == mp3_type_frame_length_from_header(
                    GST_READ_UINT32_BE(BytesAt(s, 0, 4)), 0)
         IN [layer |-> IF r.put THEN r.layer ELSE lay,
             prob |-> IF r.length = 0 THEN p
                      ELSE IF p = 0 THEN GST_TYPE_FIND_POSSIBLE - 10
                      ELSE Max(GST_TYPE_FIND_POSSIBLE - 10, p + 10)]
    ELSE [layer |-> lay, prob |-> p]

\* nothing in the middle: look at the header at the start, suggest if prob > 0
MidNothing ==
  /\ Returned /\ phase = "mid"
  /\ mid_prob <= 0
  /\ LET h == StartHeader(stream, prob, layer)
     IN IF h.prob > 0
          THEN Suggest(h.prob, h.layer)
          ELSE /\ prob' = h.prob
               /\ layer' = h.layer
               /\ pc' = "done"
               /\ UNCHANGED suggestion
  /\ UNCHANGED << stream, phase, mid_prob, mid_layer >>
  /\ UNCHANGED scanLocals

(***************************************************************************)
(* The streams the typefinder is run on                                    *)
(*                                                                         *)
(* A stream is built from segments: J(n) is n zero bytes, F(h, n) a frame  *)
(* of n bytes that starts with the header bytes h, T the 128 bytes of an   *)
(* ID3v1 trailer, which start with "TAG".                                  *)
(***************************************************************************)
MaxFrames == 6          \* most frames of one chain
MaxPrefix == 2          \* most bytes before the first frame of a short stream

J(n) == << "J", n >>
F(h, n) == << "F", h, n >>
T == << "T" >>

RECURSIVE Build(_, _, _, _, _)
Build(segs, known, len, hdrs, tags) ==
  IF segs = << >>
    THEN [len |-> len, known |-> known, hdrs |-> hdrs, tags |-> tags]
    ELSE LET g == Head(segs)
         IN IF g[1] = "J"
              THEN Build(Tail(segs), known, len + g[2], hdrs, tags)
            ELSE IF g[1] = "F"
              THEN Build(Tail(segs), known, len + g[3],
                         (len :> g[2]) @@ hdrs, tags)
            ELSE Build(Tail(segs), known, len + 128, hdrs, tags \cup {len})

Stream(segs, known) == Build(segs, known, 0, << >>, {})

\* headers: MPEG1 layer 3 128 kbit/s 44100 Hz (417 bytes), MPEG2 layer 3
\* 8 kbit/s 24000 Hz (24 bytes) stereo and mono, the same at 22050 Hz
\* (26 bytes), MPEG1 layer 1 32 kbit/s 44100 Hz (32 bytes), MPEG1 layer 3
\* free format without and with padding, and four 0xFF bytes (no header)
HdrBig == << 255, 251, 144, 68 >>
HdrSmall == << 255, 243, 20, 0 >>
HdrSmallMono == << 255, 243, 20, 192 >>
HdrSmallRate == << 255, 243, 16, 0 >>
HdrLayer1 == << 255, 255, 16, 0 >>
HdrFree == << 255, 251, 0, 0 >>
HdrFreePad == << 255, 251, 2, 0 >>
HdrFreeMono == << 255, 251, 0, 255 >>
HdrBad == << 255, 255, 255, 255 >>

\* the frame length the parser computes for the header bytes h
FrameLen(h) == mp3_type_frame_length_from_header(GST_READ_UINT32_BE(h), -1).length

\* n frames of header h, each of its computed length
Frames(h, n) == [i \in 1..n |-> F(h, FrameLen(h))]

\* n free-format frames of header h, each len bytes long
FreeFrames(h, len, n) == [i \in 1..n |-> F(h, len)]

\* the same stream with "TAG" in the payload 128 bytes before the end, when
\* that place is free of headers
WithTagInPayload(s) ==
  IF s.len >= 128
     /\ \A p \in DOMAIN s.hdrs : p + 4 <= s.len - 128 \/ p >= s.len - 125
    THEN [s EXCEPT !.tags = {s.len - 128}]
    ELSE s

\* streams that consist of 5..MaxFrames consistent frames and nothing else
FrameStreams ==
  LET plain == { Stream(Frames(h, n), k) :
                   h \in {HdrBig, HdrSmall, HdrSmallMono, HdrLayer1},
                   n \in 5..MaxFrames, k \in BOOLEAN }
                \cup { Stream(FreeFrames(HdrFree, 30, n), k) :
                         n \in 5..MaxFrames, k \in BOOLEAN }
  IN plain \cup { WithTagInPayload(s) : s \in plain }

\* streams that end after 1..4 frames, behind 0..MaxPrefix other bytes
ShortStreams ==
  { Stream(<< J(j) >> \o Frames(h, n) \o << J(e) >>, k) :
      h \in {HdrSmall, HdrLayer1}, n \in 1..4, j \in 0..MaxPrefix,
      e \in {0, 3, 200}, k \in BOOLEAN }

\* streams that end after 2..4 frames, with the trailer readable
EndStreams ==
  LET plain == { Stream(<< J(150 + j) >> \o Frames(HdrSmall, n), TRUE) :
                   n \in 2..4, j \in 0..MaxPrefix }
  IN plain \cup { WithTagInPayload(s) : s \in plain }

\* frames followed by an ID3v1 trailer
TaggedStreams ==
  { Stream(<< J(j) >> \o Frames(h, n) \o << T >>, k) :
      h \in {HdrBig, HdrSmall}, n \in {1, 2, 5}, j \in 0..MaxPrefix,
      k \in BOOLEAN }

\* chains whose headers change layer, sample rate or channel count
MixedStreams ==
  { Stream(<< F(a, FrameLen(a)), F(b, FrameLen(b)), F(a, FrameLen(a)),
              F(b, FrameLen(b)), F(a, FrameLen(a)), F(b, FrameLen(b)),
              J(150) >>, k) :
      a \in {HdrSmall}, b \in {HdrSmallMono, HdrSmallRate, HdrLayer1},
      k \in BOOLEAN }

\* free-format headers: behind a counted header; 3 bytes apart (the 4th byte
\* of HdrFreeMono is the first of the next header), at the start of a window
\* and across two windows; before the header that an earlier chain recorded;
\* bytes 0xFF that start no header; and behind a counted header with an
\* offset recorded by an earlier chain
FreeStreams ==
  { Stream(<< J(j), F(HdrSmall, 24), F(f, 30), F(f, 30), F(f, 30), J(140) >>, k) :
      f \in {HdrFree, HdrFreePad}, j \in 0..MaxPrefix, k \in BOOLEAN }
  \cup { Stream(<< F(HdrFreeMono, 3), F(HdrFreeMono, 3), F(HdrFree, 40),
                   J(140) >>, k) : k \in BOOLEAN }
  \cup { Stream(<< J(13), F(HdrFreeMono, 3), F(HdrFree, 8) >>, k) :
           k \in BOOLEAN }
  \cup { Stream(<< F(HdrSmall, 10), F(f, 14), F(f, 30), J(150) >>, k) :
           f \in {HdrFree, HdrFreePad}, k \in BOOLEAN }
  \cup { Stream(<< F(HdrBad, 4), J(4), F(HdrBad, 4), J(150) >>, k) :
           k \in BOOLEAN }
  \cup { Stream(<< F(HdrSmall, 24), F(HdrFree, 30), F(HdrSmall, 24),
                   F(HdrFree, 54), F(HdrFree, 54), F(HdrFree, 54), J(150) >>, k) :
           k \in BOOLEAN }

\* frames far into the stream, at the start and at the middle
FarStreams ==
  { Stream(<< J(a) >> \o Frames(HdrSmall, 5) \o << J(10) >>
           \o Frames(h, 5) \o << J(2220 - 5 * FrameLen(h)) >>, TRUE) :
      a \in {2100}, h \in {HdrSmall, HdrLayer1} }
  \cup { Stream(<< J(9960) >> \o Frames(HdrSmall, n) \o << J(e) >>, k) :
           n \in {2, 5}, e \in {0}, k \in BOOLEAN }
  \cup { Stream(<< J(10500) >> \o Frames(HdrSmall, 5) \o << J(10380) >>, TRUE),
         Stream(<< J(10800), J(9950) >> \o Frames(HdrSmall, 5)
                \o << J(730) >>, TRUE) }

Streams ==
  FrameStreams \cup ShortStreams \cup EndStreams \cup TaggedStreams
    \cup MixedStreams
    \cup FreeStreams \cup FarStreams

(***************************************************************************)
(* The specification: one run of mp3_type_find on one stream               *)
(***************************************************************************)
mp3Init ==
  /\ stream \in Streams
  /\ pc = "scan"
  /\ phase = "start"
  /\ start_off = 0
  /\ skipped = 0
  /\ size = 0
  /\ winLo = 0
  /\ offset = 0
  /\ found = 0
  /\ head_null = TRUE
  /\ layer_l = 0
  /\ channels_l = 0
  /\ samplerate_l = 0
  /\ last_free_offset = -1
  /\ last_free_framelen = -1
  /\ prob = 0
  /\ layer = 0
  /\ mid_prob = 0
  /\ mid_layer = 0
  /\ suggestion = None

\* a function that does not run: its variables keep these values
sharedIdle ==
  /\ stream = Stream(<< >>, FALSE)
  /\ pc = "done"
  /\ suggestion = None
  /\ skipped = 0 /\ size = 0 /\ offset = 0 /\ found = 0 /\ winLo = 0

mp3Idle ==
  /\ phase = "start"
  /\ start_off = 0
  /\ head_null = TRUE
  /\ layer_l = 0 /\ channels_l = 0 /\ samplerate_l = 0
  /\ last_free_offset = -1 /\ last_free_framelen = -1
  /\ prob = 0 /\ layer = 0 /\ mid_prob = 0 /\ mid_layer = 0

parserIdle ==
  /\ p_header = << 0, 0, 0, 0 >>
  /\ p_free_framelen = -1
  /\ p_result = None

qtIdle == tip = 0

matroskaIdle == len_mask = 0 /\ n_byte = 0 /\ total = 0

sysIdle == packet_size = 0

wvIdle == blocksize = << 0, 0 >> /\ left = 0 /\ run = 1 /\ first = << >>

Init ==
  /\ mp3Init
  /\ parserIdle
  /\ qtIdle
  /\ matroskaIdle
  /\ sysIdle
  /\ wvIdle

\* the variables that a run of mp3_type_find leaves alone
notMp3 == << parserVars, qtLocals, matroskaLocals, sysLocals,
          wvLocals >>

Next ==
  \/ ScanExhausted /\ UNCHANGED notMp3
  \/ ScanNoData /\ UNCHANGED notMp3
  \/ ScanSkip /\ UNCHANGED notMp3
  \/ ScanSync /\ UNCHANGED notMp3
  \/ ChainNoData /\ UNCHANGED notMp3
  \/ ChainInvalid /\ UNCHANGED notMp3
  \/ ChainFreeFirst /\ UNCHANGED notMp3
  \/ ChainFreeRestart /\ UNCHANGED notMp3
  \/ ChainValid /\ UNCHANGED notMp3
  \/ ChainAccept /\ UNCHANGED notMp3
  \/ ChainReject /\ UNCHANGED notMp3
  \/ LengthUnknown /\ UNCHANGED notMp3
  \/ StartCertain /\ UNCHANGED notMp3
  \/ CallMid /\ UNCHANGED notMp3
  \/ MidOnly /\ UNCHANGED notMp3
  \/ MidDiscrepancy /\ UNCHANGED notMp3
  \/ MidAverage /\ UNCHANGED notMp3
  \/ MidNothing /\ UNCHANGED notMp3

Spec == Init /\ [][Next]_vars

\* the same with every call running on: a step is taken whenever one can be
SpecLive == Init /\ [][Next]_vars /\ WF_vars(Next)

(***************************************************************************)
(* The specification of one call of mp3_type_frame_length_from_header      *)
(*                                                                         *)
(* The header is drawn from the byte values that set or break the sync     *)
(* bits and run through every version, layer, bitrate index, sample-rate   *)
(* index, padding and channel mode; possible_free_framelen is -1 (none), 0  *)
(* or a length.                                                            *)
(***************************************************************************)
ParserByte1 == {255, 127}
ParserByte2 == 224..255 \cup {223, 31}
ParserByte3 == {2 * i : i \in 0..127}
ParserByte4 == {0, 192}
ParserFreeFramelens == {-1, 0, 417}

parserInit ==
  /\ p_header \in { << a, b, c, d >> : a \in ParserByte1, b \in ParserByte2,
                                        c \in ParserByte3, d \in ParserByte4 }
  /\ p_free_framelen \in ParserFreeFramelens
  /\ p_result = None

InitParser ==
  /\ parserInit
  /\ sharedIdle
  /\ mp3Idle
  /\ qtIdle
  /\ matroskaIdle
  /\ sysIdle
  /\ wvIdle

\* the call: header = GST_READ_UINT32_BE of the bytes, all out-parameters given
ParseHeader ==
  /\ p_result = None
  /\ p_result' = mp3_type_frame_length_from_header(GST_READ_UINT32_BE(p_header),
                                                   p_free_framelen)
  /\ UNCHANGED << p_header, p_free_framelen >>

notParser == << sharedVars, mp3Locals, qtLocals, matroskaLocals, sysLocals,
          wvLocals >>

NextParser ==
  \/ ParseHeader /\ UNCHANGED notParser

SpecParser == InitParser /\ [][NextParser]_vars

(***************************************************************************)
(* 64-bit arithmetic.  A guint64 is held as four 16-bit limbs, the most    *)
(* significant first, so that sums wrap at 2^64 as in the code.            *)
(***************************************************************************)
Limb == 65536

\* the guint64 with the small value v >= 0
U64(v) == << 0, 0, v \div Limb, v % Limb >>

\* a guint32 (held as its bit pattern) widened to a guint64
U64OfU32(x) == << 0, 0, (x \div Limb) % Limb, x % Limb >>

\* GST_READ_UINT64_BE of the eight bytes b
GST_READ_UINT64_BE(b) ==
  << b[1] * 256 + b[2], b[3] * 256 + b[4], b[5] * 256 + b[6],
     b[7] * 256 + b[8] >>

\* a + b modulo 2^64
Add64(a, b) ==
  LET s4 == a[4] + b[4]
      s3 == a[3] + b[3] + s4 \div Limb
      s2 == a[2] + b[2] + s3 \div Limb
      s1 == a[1] + b[1] + s2 \div Limb
  IN << s1 % Limb, s2 % Limb, s3 % Limb, s4 % Limb >>

\* a < b as unsigned 64-bit values
Lt64(a, b) ==
  \E i \in 1..4 : a[i] < b[i] /\ \A j \in 1..(i - 1) : a[j] = b[j]

\* the guint64 a passed as the gint64 offset of gst_type_find_peek: its value
\* when that is small, else OffsetFar or -OffsetFar, which every peek of the
\* model's streams fails at
Int64(a) ==
  IF a[1] = 0 /\ a[2] = 0 /\ a[3] < 16384
    THEN a[3] * Limb + a[4]
  ELSE IF a[1] = Limb - 1 /\ a[2] = Limb - 1 /\ a[3] >= 49152
    THEN (a[3] - Limb) * Limb + a[4]
  ELSE IF a[1] < 32768 THEN OffsetFar ELSE -OffsetFar

(***************************************************************************)
(* qt_type_find                                                            *)
(***************************************************************************)
\* the box types as bytes
Tag_moov == << 109, 111, 111, 118 >>
Tag_mdat == << 109, 100, 97, 116 >>
Tag_ftyp == << 102, 116, 121, 112 >>
Tag_free == << 102, 114, 101, 101 >>
Tag_skip == << 115, 107, 105, 112 >>
Tag_pnot == << 112, 110, 111, 116 >>
Tag_PICT == << 80, 73, 67, 84 >>
Tag_wide == << 119, 105, 100, 101 >>

\* box/atom types that are in common with ISO base media file format
IsoTags == { Tag_moov, Tag_mdat, Tag_ftyp, Tag_free, Tag_skip }
\* other box/atom types, apparently quicktime specific
QuicktimeTags == { Tag_pnot, Tag_PICT, Tag_wide }

\* data = gst_type_find_peek (tf, offset, 8) != NULL
QtPeek == PeekOk(stream, Int64(offset), 8)
\* the bytes of data, and &data[4]
QtData == BytesAt(stream, PeekPos(stream, Int64(offset)), 8)
QtTag == SubSeq(QtData, 5, 8)
\* size = GST_READ_UINT32_BE (data)
QtSize32 == U64OfU32(GST_READ_UINT32_BE(SubSeq(QtData, 1, 4)))
\* sizedata = gst_type_find_peek (tf, offset + 8, 8)
QtSizedataPeek == PeekOk(stream, Int64(Add64(offset, U64(8))), 8)
QtSizedata ==
  BytesAt(stream, PeekPos(stream, Int64(Add64(offset, U64(8)))), 8)

\* the tip after a box that is in common with ISO base media
IsoTip == IF tip = 0 THEN GST_TYPE_FIND_LIKELY ELSE GST_TYPE_FIND_NEARLY_CERTAIN

\* a walker that takes the 4-byte size field for the size of every box
BoxSizeField(size32, sizedata) == size32

\* the size to advance by when the size field is 1: the 64-bit integer that
\* follows the type
BoxSizeExtended(size32, sizedata) == GST_READ_UINT64_BE(sizedata)

qtFrame == << stream, suggestion, skipped, found, winLo >>

\* the peek at the head of the loop fails
QtNoData ==
  /\ pc = "box"
  /\ ~QtPeek
  /\ pc' = "end"
  /\ UNCHANGED << offset, size, tip >>
  /\ UNCHANGED qtFrame

\* an ISO box with a size of 8 or more: on to the next box
QtIsoAdvance ==
  /\ pc = "box"
  /\ QtPeek
  /\ QtTag \in IsoTags
  /\ QtSize32 # U64(1)
  /\ ~Lt64(QtSize32, U64(8))
  /\ tip' = IsoTip
  /\ size' = QtSize32
  /\ offset' = Add64(offset, QtSize32)
  /\ pc' = "box"
  /\ UNCHANGED qtFrame

\* an ISO box with a size below 8 that is not 1: break
QtIsoInvalidSize ==
  /\ pc = "box"
  /\ QtPeek
  /\ QtTag \in IsoTags
  /\ QtSize32 # U64(1)
  /\ Lt64(QtSize32, U64(8))
  /\ tip' = IsoTip
  /\ size' = QtSize32
  /\ pc' = "end"
  /\ UNCHANGED offset
  /\ UNCHANGED qtFrame

\* an ISO box with size 1 and the 64-bit size readable
QtIsoExtended ==
  /\ pc = "box"
  /\ QtPeek
  /\ QtTag \in IsoTags
  /\ QtSize32 = U64(1)
  /\ QtSizedataPeek
  /\ tip' = IsoTip
  /\ size' = BoxSizeExtended(QtSize32, QtSizedata)
  /\ offset' = Add64(offset, size')
  /\ pc' = "box"
  /\ UNCHANGED qtFrame

\* an ISO box with size 1 and no data behind the type: break
QtIsoExtendedNoData ==
  /\ pc = "box"
  /\ QtPeek
  /\ QtTag \in IsoTags
  /\ QtSize32 = U64(1)
  /\ ~QtSizedataPeek
  /\ tip' = IsoTip
  /\ size' = QtSize32
  /\ pc' = "end"
  /\ UNCHANGED offset
  /\ UNCHANGED qtFrame

\* pnot, PICT or wide: break with MAXIMUM
QtQuicktimeBox ==
  /\ pc = "box"
  /\ QtPeek
  /\ QtTag \in QuicktimeTags
  /\ tip' = GST_TYPE_FIND_MAXIMUM
  /\ pc' = "end"
  /\ UNCHANGED << offset, size >>
  /\ UNCHANGED qtFrame

\* a walker that keeps the tip when it meets a box of another type
QtOtherBoxKeepsTip ==
  /\ pc = "box"
  /\ QtPeek
  /\ QtTag \notin IsoTags \cup QuicktimeTags
  /\ pc' = "end"
  /\ UNCHANGED << offset, size, tip >>
  /\ UNCHANGED qtFrame

\* any other type: break with tip = 0
QtOtherBox ==
  /\ pc = "box"
  /\ QtPeek
  /\ QtTag \notin IsoTags \cup QuicktimeTags
  /\ tip' = 0
  /\ pc' = "end"
  /\ UNCHANGED << offset, size >>
  /\ UNCHANGED qtFrame

\* behind the loop: if (tip > 0) gst_type_find_suggest (tf, tip, QT_CAPS)
QtSuggest ==
  /\ pc = "end"
  /\ tip > 0
  /\ suggestion' = << tip, "video/quicktime" >>
  /\ pc' = "done"
  /\ UNCHANGED << stream, skipped, size, offset, found, winLo, tip >>

QtNoSuggest ==
  /\ pc = "end"
  /\ tip = 0
  /\ pc' = "done"
  /\ UNCHANGED << stream, suggestion, skipped, size, offset, found, winLo, tip >>

(***************************************************************************)
(* Streams of boxes.  A box is [sz, tag, ext, pad]: the 4 bytes of the     *)
(* size field, the 4 bytes of the type, the 8 bytes behind the type (or    *)
(* none) and the number of zero bytes that follow.                         *)
(***************************************************************************)
MaxBoxes == 2           \* most boxes of one stream

Tag_junk == << 106, 117, 110, 107 >>

Box(sz, tag, ext, pad) == [sz |-> sz, tag |-> tag, ext |-> ext, pad |-> pad]

Size32(v) == << 0, 0, v \div 256, v % 256 >>

\* boxes whose size field is their length: 16 bytes, or 8 bytes
PlainBoxes ==
  { Box(Size32(16), t, << >>, 8) : t \in {Tag_ftyp, Tag_moov, Tag_wide, Tag_junk} }
  \cup { Box(Size32(8), t, << >>, 0) : t \in {Tag_mdat, Tag_skip, Tag_pnot, Tag_PICT} }

\* boxes whose size field is below 8 and not 1, or far beyond the stream
BadSizeBoxes ==
  { Box(Size32(0), Tag_ftyp, << >>, 0), Box(Size32(4), Tag_moov, << >>, 0),
    Box(Size32(0), Tag_pnot, << >>, 0), Box(Size32(7), Tag_junk, << >>, 0),
    Box(<< 255, 255, 255, 240 >>, Tag_free, << >>, 8) }

\* boxes with size field 1: the 64-bit size is the length (24), 0, 1, 7,
\* 2^64 - 16 (back to the box before), 2^32, or missing
ExtendedBoxes ==
  { Box(Size32(1), Tag_mdat, e, 8) :
      e \in { << 0, 0, 0, 0, 0, 0, 0, 24 >>, << 0, 0, 0, 0, 0, 0, 0, 0 >>,
              << 0, 0, 0, 0, 0, 0, 0, 1 >>, << 0, 0, 0, 0, 0, 0, 0, 7 >>,
              << 255, 255, 255, 255, 255, 255, 255, 240 >>,
              << 0, 0, 0, 1, 0, 0, 0, 0 >> } }
  \cup { Box(Size32(1), Tag_free, << >>, 0), Box(Size32(1), Tag_wide, << >>, 0) }

Boxes == PlainBoxes \cup BadSizeBoxes \cup ExtendedBoxes

\* the segments of a box
BoxSegs(b) ==
  << F(b.sz, 4), F(b.tag, 4) >>
  \o (IF b.ext = << >> THEN << >>
      ELSE << F(SubSeq(b.ext, 1, 4), 4), F(SubSeq(b.ext, 5, 8), 4) >>)
  \o << J(b.pad) >>

RECURSIVE BoxesSegs(_)
BoxesSegs(bs) ==
  IF bs = << >> THEN << >> ELSE BoxSegs(Head(bs)) \o BoxesSegs(Tail(bs))

\* 1..MaxBoxes boxes, or two ISO boxes and one more box, then nothing or
\* 3 bytes
QtStreams ==
  { Stream(BoxesSegs(bs) \o << J(e) >>, k) :
      bs \in UNION { [1..n -> Boxes] : n \in 1..MaxBoxes },
      e \in {0, 3}, k \in BOOLEAN }
  \cup { Stream(BoxesSegs(<< Box(Size32(16), Tag_ftyp, << >>, 8), a, b >>), k) :
           a \in { Box(Size32(16), Tag_moov, << >>, 8),
                   Box(Size32(8), Tag_mdat, << >>, 0) },
           b \in Boxes, k \in BOOLEAN }

(***************************************************************************)
(* The specification: one run of qt_type_find on one stream                *)
(***************************************************************************)
qtInit ==
  /\ stream \in QtStreams
  /\ pc = "box"
  /\ suggestion = None
  /\ offset = U64(0)
  /\ size = U64(0)
  /\ tip = 0
  /\ skipped = 0 /\ found = 0 /\ winLo = 0

InitQt ==
  /\ qtInit
  /\ mp3Idle
  /\ parserIdle
  /\ matroskaIdle
  /\ sysIdle
  /\ wvIdle

\* the variables that a run of qt_type_find leaves alone
notQt == << mp3Locals, parserVars, matroskaLocals, sysLocals,
          wvLocals >>

NextQt ==
  \/ QtNoData /\ UNCHANGED notQt
  \/ QtIsoAdvance /\ UNCHANGED notQt
  \/ QtIsoInvalidSize /\ UNCHANGED notQt
  \/ QtIsoExtended /\ UNCHANGED notQt
  \/ QtIsoExtendedNoData /\ UNCHANGED notQt
  \/ QtQuicktimeBox /\ UNCHANGED notQt
  \/ QtOtherBox /\ UNCHANGED notQt
  \/ QtSuggest /\ UNCHANGED notQt
  \/ QtNoSuggest /\ UNCHANGED notQt

SpecQt == InitQt /\ [][NextQt]_vars

(***************************************************************************)
(* matroska_type_find                                                      *)
(***************************************************************************)
\* the largest gint
MaxInt32 == 2147483647

\* the EBML ID and the document type searched for
EbmlId == << 26, 69, 223, 163 >>
probe_data == << 109, 97, 116, 114, 111, 115, 107, 97 >>

\* (total << 8) | b on the 32-bit gint total, held as its bit pattern: the
\* bits shifted out of the 32 are lost
ShiftInByte(t, b) ==
  LET low24 == t % 16777216
  IN (IF low24 >= 8388608 THEN low24 - 16777216 ELSE low24) * 256 + b

\* 4 + size + total as a 32-bit gint
HeaderEnd ==
  IF total > MaxInt32 - 4 - size
    THEN ((total - MaxInt32) + 4 + size - 1) - MaxInt32 - 1
    ELSE 4 + size + total

\* the bytes that data[i] may give after the peek of 5 bytes: the byte of the
\* stream inside the peeked bytes; beyond them the read is outside the
\* peeked memory and may give the byte of the stream or anything else
SizeFieldByte(i) ==
  IF i < 5 THEN { ByteAt(stream, i) }
  ELSE (IF i < stream.len THEN { ByteAt(stream, i) } ELSE {}) \cup {0, 255}

\* the loop test "size <= 8 && !(total & len_mask)"
MarkerNotFound == size <= 8 /\ (total \div len_mask) % 2 = 0

\* a probe that goes on with whatever width the loop ended at
WidthNeverExceeded == FALSE

\* the test "size > 8" that rejects the size field
WidthExceeded == size > 8

\* the test of the search loop, "n <= 4 + size + total - sizeof (probe_data)",
\* which is made on unsigned 64-bit values: a header end below 8 wraps to a
\* bound that no n_byte reaches
SearchGoesOn == IF HeaderEnd >= 8 THEN n_byte <= HeaderEnd - 8 ELSE TRUE

\* most bytes behind the header window that the search loop runs over
MaxOverrun == 2

matroskaFrame == << stream, skipped, offset, found, winLo >>

\* data = gst_type_find_peek (tf, 0, 4 + 1) is NULL
MatroskaNoData ==
  /\ pc = "ebml"
  /\ ~PeekOk(stream, 0, 5)
  /\ pc' = "done"
  /\ UNCHANGED << suggestion, size, len_mask, n_byte, total >>
  /\ UNCHANGED matroskaFrame

\* the first four bytes are not the EBML ID
MatroskaNotEbml ==
  /\ pc = "ebml"
  /\ PeekOk(stream, 0, 5)
  /\ BytesAt(stream, 0, 4) # EbmlId
  /\ pc' = "done"
  /\ UNCHANGED << suggestion, size, len_mask, n_byte, total >>
  /\ UNCHANGED matroskaFrame

\* total = data[4]
MatroskaEbml ==
  /\ pc = "ebml"
  /\ PeekOk(stream, 0, 5)
  /\ BytesAt(stream, 0, 4) = EbmlId
  /\ total' = ByteAt(stream, 4)
  /\ pc' = "width"
  /\ UNCHANGED << suggestion, size, len_mask, n_byte >>
  /\ UNCHANGED matroskaFrame

\* one iteration of the loop that looks for the length marker bit
MatroskaWidthStep ==
  /\ pc = "width"
  /\ MarkerNotFound
  /\ size' = size + 1
  /\ len_mask' = len_mask \div 2
  /\ UNCHANGED << pc, suggestion, n_byte, total >>
  /\ UNCHANGED matroskaFrame

\* if (size > 8) return
MatroskaTooWide ==
  /\ pc = "width"
  /\ ~MarkerNotFound
  /\ WidthExceeded
  /\ pc' = "done"
  /\ UNCHANGED << suggestion, size, len_mask, n_byte, total >>
  /\ UNCHANGED matroskaFrame

\* total &= (len_mask - 1)
MatroskaMask ==
  /\ pc = "width"
  /\ ~MarkerNotFound
  /\ ~WidthExceeded
  /\ total' = (IF len_mask = 0 THEN total ELSE total % len_mask)
  /\ pc' = "value"
  /\ UNCHANGED << suggestion, size, len_mask, n_byte >>
  /\ UNCHANGED matroskaFrame

\* total = (total << 8) | data[4 + n++]
MatroskaReadByte ==
  /\ pc = "value"
  /\ n_byte < size
  /\ \E b \in SizeFieldByte(4 + n_byte) : total' = ShiftInByte(total, b)
  /\ n_byte' = n_byte + 1
  /\ UNCHANGED << pc, suggestion, size, len_mask >>
  /\ UNCHANGED matroskaFrame

\* data = gst_type_find_peek (tf, 0, 4 + size + total) is NULL; the length is
\* a guint, so a negative gint is a length beyond every stream
MatroskaHeaderNoData ==
  /\ pc = "value"
  /\ n_byte >= size
  /\ (HeaderEnd < 0 \/ ~PeekOk(stream, 0, HeaderEnd))
  /\ pc' = "done"
  /\ UNCHANGED << suggestion, size, len_mask, n_byte, total >>
  /\ UNCHANGED matroskaFrame

\* the header window is there: n = 4 + size
MatroskaHeader ==
  /\ pc = "value"
  /\ n_byte >= size
  /\ HeaderEnd >= 0 /\ PeekOk(stream, 0, HeaderEnd)
  /\ n_byte' = 4 + size
  /\ pc' = "search"
  /\ UNCHANGED << suggestion, size, len_mask, total >>
  /\ UNCHANGED matroskaFrame

\* the 8 bytes at n_byte are "matroska": suggest
MatroskaFound ==
  /\ pc = "search"
  /\ SearchGoesOn
  /\ n_byte + 8 <= HeaderEnd
  /\ BytesAt(stream, n_byte, 8) = probe_data
  /\ suggestion' = << GST_TYPE_FIND_MAXIMUM, "video/x-matroska" >>
  /\ pc' = "done"
  /\ UNCHANGED << size, len_mask, n_byte, total >>
  /\ UNCHANGED matroskaFrame

\* they are not: n++
MatroskaSearchStep ==
  /\ pc = "search"
  /\ SearchGoesOn
  /\ n_byte + 8 <= HeaderEnd
  /\ BytesAt(stream, n_byte, 8) # probe_data
  /\ n_byte' = n_byte + 1
  /\ UNCHANGED << pc, suggestion, size, len_mask, total >>
  /\ UNCHANGED matroskaFrame

\* the 8 bytes at n_byte are not all inside the header window: the memcmp reads
\* outside the peeked memory and may match, not match or fault
MatroskaSearchOutside ==
  /\ pc = "search"
  /\ SearchGoesOn
  /\ n_byte + 8 > HeaderEnd
  /\ \/ /\ suggestion' = << GST_TYPE_FIND_MAXIMUM, "video/x-matroska" >>
        /\ pc' = "done"
        /\ n_byte' = n_byte
     \/ /\ n_byte < HeaderEnd + MaxOverrun
        /\ n_byte' = n_byte + 1
        /\ UNCHANGED << pc, suggestion >>
     \/ /\ pc' = "fault"
        /\ UNCHANGED << suggestion, n_byte >>
  /\ UNCHANGED << size, len_mask, total >>
  /\ UNCHANGED matroskaFrame

\* the search loop ends without a match
MatroskaSearchEnd ==
  /\ pc = "search"
  /\ ~SearchGoesOn
  /\ pc' = "done"
  /\ UNCHANGED << suggestion, size, len_mask, n_byte, total >>
  /\ UNCHANGED matroskaFrame

(***************************************************************************)
(* Streams that start like an EBML header: four bytes, a size field and a  *)
(* payload.                                                                *)
(***************************************************************************)
MaxLead == 4            \* most bytes before the document type in the header

\* the stream of the bytes b
StreamOfBytes(b, known) ==
  [len |-> Len(b), known |-> known, tags |-> {},
   hdrs |-> [q \in {4 * i : i \in 0..((Len(b) + 3) \div 4 - 1)} |->
               [j \in 1..4 |-> IF q + j <= Len(b) THEN b[q + j] ELSE 0]]]

Zeros(k) == [i \in 1..k |-> 0]

\* size fields of every width 1..8 with the value v < 64
SizeField(w, v) ==
  IF w = 1 THEN << 128 + v >>
  ELSE << 2^(8 - w) >> \o Zeros(w - 2) \o << v >>

\* size fields whose value does not fit 32 bits or has bit 31 set, and
\* size fields without a marker bit
WideSizeFields ==
  { << 9, 0, 0, 0, 0 >>, << 8, 128, 0, 0, 0 >>, << 8, 255, 255, 255, 247 >>,
    << 1, 0, 0, 1, 0, 0, 0, 12 >>, << 4, 1, 0, 0, 0, 9 >>,
    << 64, 255 >>, << 65, 0 >> }

NoMarkerSizeFields ==
  { << 0 >>, << 0, 255, 255, 255, 255, 255, 255, 255, 255 >> }

\* header payloads: the document type behind 0..MaxLead bytes, no document
\* type, and payloads shorter than the document type
Payloads ==
  { Zeros(k) \o probe_data : k \in 0..MaxLead }
  \cup { Zeros(12), Zeros(3), << >> }

MatroskaStreams ==
  { StreamOfBytes(EbmlId \o SizeField(w, v) \o pl \o Zeros(e), k) :
      w \in 1..8, v \in {0, 3, 8, 12}, pl \in Payloads, e \in {0, 8},
      k \in {FALSE} }
  \cup { StreamOfBytes(EbmlId \o f \o pl, FALSE) :
           f \in WideSizeFields \cup NoMarkerSizeFields, pl \in Payloads }
  \cup { StreamOfBytes(b, FALSE) :
           b \in { << >>, EbmlId, << 26, 69, 223, 0, 129, 0 >>,
                   Zeros(4) \o SizeField(1, 8) \o probe_data } }

(***************************************************************************)
(* The specification: one run of matroska_type_find on one stream          *)
(***************************************************************************)
matroskaInit ==
  /\ stream \in MatroskaStreams
  /\ pc = "ebml"
  /\ suggestion = None
  /\ len_mask = 128
  /\ size = 1
  /\ n_byte = 1
  /\ total = 0
  /\ skipped = 0 /\ offset = 0 /\ found = 0 /\ winLo = 0

InitMatroska ==
  /\ matroskaInit
  /\ mp3Idle
  /\ parserIdle
  /\ qtIdle
  /\ sysIdle
  /\ wvIdle

\* the variables that a run of matroska_type_find leaves alone
notMatroska == << mp3Locals, parserVars, qtLocals, sysLocals,
          wvLocals >>

NextMatroska ==
  \/ MatroskaNoData /\ UNCHANGED notMatroska
  \/ MatroskaNotEbml /\ UNCHANGED notMatroska
  \/ MatroskaEbml /\ UNCHANGED notMatroska
  \/ MatroskaWidthStep /\ UNCHANGED notMatroska
  \/ MatroskaTooWide /\ UNCHANGED notMatroska
  \/ MatroskaMask /\ UNCHANGED notMatroska
  \/ MatroskaReadByte /\ UNCHANGED notMatroska
  \/ MatroskaHeaderNoData /\ UNCHANGED notMatroska
  \/ MatroskaHeader /\ UNCHANGED notMatroska
  \/ MatroskaFound /\ UNCHANGED notMatroska
  \/ MatroskaSearchStep /\ UNCHANGED notMatroska
  \/ MatroskaSearchOutside /\ UNCHANGED notMatroska
  \/ MatroskaSearchEnd /\ UNCHANGED notMatroska

SpecMatroska == InitMatroska /\ [][NextMatroska]_vars

(***************************************************************************)
(* mpeg1_parse_header                                                      *)
(***************************************************************************)
GST_READ_UINT16_BE(b) == b[1] * 256 + b[2]

\* the bytes that data[i] may give when data is a window of winlen bytes at
\* base: inside the window the byte of the stream; outside it the byte of
\* the stream or anything else
WindowByte(base, i, winlen) ==
  IF i < winlen THEN { ByteAt(stream, base + i) }
  ELSE (IF base + i < stream.len THEN { ByteAt(stream, base + i) } ELSE {})
       \cup {0, 255}

\* the marker bits of a pack header, data at the 8 bytes behind the start code
PackMarkersOk(d) ==
  /\ d[1] % 16 = 1 /\ d[1] \div 32 = 1
  /\ d[3] % 2 = 1
  /\ d[5] % 2 = 1
  /\ d[6] >= 128
  /\ d[8] % 2 = 1

\* the checks of a system header whose window of hl bytes is at base: index
\* and test of every byte that is read
SystemHeaderChecks(hl) ==
  { << 0, "bit7" >>, << 2, "bit0" >>, << 4, "bit5" >> }
  \cup { << 6 + 3 * i, "above_bb" >> : i \in 0..((hl - 7) \div 3) }
  \cup { << 7 + 3 * i, "bits76" >> : i \in 0..((hl - 7) \div 3) }

CheckHolds(test, b) ==
  CASE test = "bit7" -> b >= 128
    [] test = "bit0" -> b % 2 = 1
    [] test = "bit5" -> (b \div 32) % 2 = 1
    [] test = "above_bb" -> b > 187
    [] OTHER -> b \div 64 = 3

\* the values mpeg1_parse_header (tf, off) may return: 0 for invalid data,
\* 1 for not enough data, else the size until the next packet
mpeg1_parse_header(off) ==
  IF ~PeekOk(stream, off, 4) THEN {1}
  ELSE LET d == BytesAt(stream, off, 4)
       IN IF d[1] # 0 \/ d[2] # 0 \/ d[3] # 1 THEN {0}
          ELSE IF d[4] = 186
            THEN IF ~PeekOk(stream, off + 4, 8) THEN {1}
                 ELSE IF PackMarkersOk(BytesAt(stream, off + 4, 8))
                        THEN {12} ELSE {0}
          ELSE IF d[4] = 185 THEN {4}
          ELSE IF d[4] = 187
            THEN IF ~PeekOk(stream, off + 4, 2) THEN {1}
                 ELSE LET hl == GST_READ_UINT16_BE(BytesAt(stream, off + 4, 2))
                          checks == SystemHeaderChecks(hl)
                      IN IF ~PeekOk(stream, off + 6, hl) THEN {1}
                         ELSE (IF \A c \in checks :
                                    \E b \in WindowByte(off + 6, c[1], hl) :
                                      CheckHolds(c[2], b)
                                 THEN {hl + 6} ELSE {})
                              \cup
                              (IF \E c \in checks :
                                    \E b \in WindowByte(off + 6, c[1], hl) :
                                      ~CheckHolds(c[2], b)
                                 THEN {0} ELSE {})
          ELSE IF d[4] < 185 THEN {0}
          ELSE IF ~PeekOk(stream, off + 4, 2) THEN {1}
               ELSE { GST_READ_UINT16_BE(BytesAt(stream, off + 4, 2)) + 6 }

(***************************************************************************)
(* mpeg1_sys_type_find                                                     *)
(***************************************************************************)
GST_MPEG_TYPEFIND_TRY_HEADERS == 4
GST_MPEG_TYPEFIND_TRY_SYNC == 100 * 1024
GST_MPEG_TYPEFIND_SYNC_SIZE == 2048

\* IS_MPEG_HEADER (data), data being at skipped
IS_MPEG_HEADER(d) == d = << 0, 0, 1, 186 >>

\* size after the "if (size < 4)" block; 0 stands for data == NULL
SysWindowSize ==
  IF size < 4
    THEN IF PeekOk(stream, skipped, GST_MPEG_TYPEFIND_SYNC_SIZE)
           THEN GST_MPEG_TYPEFIND_SYNC_SIZE ELSE 0
    ELSE size

sysFrame == << stream, winLo >>

\* skipped >= GST_MPEG_TYPEFIND_TRY_SYNC: the scan ends
SysExhausted ==
  /\ pc = "sync"
  /\ skipped >= GST_MPEG_TYPEFIND_TRY_SYNC
  /\ pc' = "done"
  /\ UNCHANGED << suggestion, skipped, size, offset, found, packet_size >>
  /\ UNCHANGED sysFrame

\* the window peek fails: break
SysNoData ==
  /\ pc = "sync"
  /\ skipped < GST_MPEG_TYPEFIND_TRY_SYNC
  /\ SysWindowSize = 0
  /\ pc' = "done"
  /\ UNCHANGED << suggestion, skipped, size, offset, found, packet_size >>
  /\ UNCHANGED sysFrame

\* no pack start code at data: data++, skipped++, size--
SysSkip ==
  /\ pc = "sync"
  /\ skipped < GST_MPEG_TYPEFIND_TRY_SYNC
  /\ SysWindowSize # 0
  /\ ~IS_MPEG_HEADER(BytesAt(stream, skipped, 4))
  /\ skipped' = skipped + 1
  /\ size' = SysWindowSize - 1
  /\ UNCHANGED << pc, suggestion, offset, found, packet_size >>
  /\ UNCHANGED sysFrame

\* found packet start code: found = 0, packet_size = 0, offset = skipped
SysSync ==
  /\ pc = "sync"
  /\ skipped < GST_MPEG_TYPEFIND_TRY_SYNC
  /\ SysWindowSize # 0
  /\ IS_MPEG_HEADER(BytesAt(stream, skipped, 4))
  /\ size' = SysWindowSize
  /\ found' = 0
  /\ packet_size' = 0
  /\ offset' = skipped
  /\ pc' = "chain"
  /\ UNCHANGED << suggestion, skipped >>
  /\ UNCHANGED sysFrame

\* one iteration of the header loop with a header that has a size
SysHeader ==
  /\ pc = "chain"
  /\ found < GST_MPEG_TYPEFIND_TRY_HEADERS
  /\ \E r \in mpeg1_parse_header(offset) :
       /\ r > 1
       /\ packet_size' = r
       /\ offset' = offset + r
  /\ found' = found + 1
  /\ UNCHANGED << pc, suggestion, skipped, size >>
  /\ UNCHANGED sysFrame

\* packet_size <= 1: break
SysHeaderBreak ==
  /\ pc = "chain"
  /\ found < GST_MPEG_TYPEFIND_TRY_HEADERS
  /\ \E r \in mpeg1_parse_header(offset) :
       /\ r <= 1
       /\ packet_size' = r
  /\ pc' = "check"
  /\ UNCHANGED << suggestion, skipped, size, offset, found >>
  /\ UNCHANGED sysFrame

\* the header loop ends with found == GST_MPEG_TYPEFIND_TRY_HEADERS
SysHeadersFound ==
  /\ pc = "chain"
  /\ found >= GST_MPEG_TYPEFIND_TRY_HEADERS
  /\ pc' = "check"
  /\ UNCHANGED << suggestion, skipped, size, offset, found, packet_size >>
  /\ UNCHANGED sysFrame

\* the test behind the header loop
ChainComplete ==
  found = GST_MPEG_TYPEFIND_TRY_HEADERS \/ packet_size = 1

\* suggest video/mpeg, systemstream, mpegversion 1 and return
SysSuggest ==
  /\ pc = "check"
  /\ ChainComplete
  /\ suggestion' = << GST_TYPE_FIND_MAXIMUM - 1, "video/mpeg", 1 >>
  /\ pc' = "done"
  /\ UNCHANGED << skipped, size, offset, found, packet_size >>
  /\ UNCHANGED sysFrame

\* no suggestion: data++, skipped++, size--
SysReject ==
  /\ pc = "check"
  /\ ~ChainComplete
  /\ skipped' = skipped + 1
  /\ size' = size - 1
  /\ pc' = "sync"
  /\ UNCHANGED << suggestion, offset, found, packet_size >>
  /\ UNCHANGED sysFrame

(***************************************************************************)
(* System streams                                                          *)
(***************************************************************************)
\* a pack header with its marker bits, and one with a marker bit missing
Pack == << F(<< 0, 0, 1, 186 >>, 4), F(<< 33, 0, 1, 0 >>, 4),
           F(<< 1, 128, 0, 1 >>, 4) >>
BadPack == << F(<< 0, 0, 1, 186 >>, 4), F(<< 33, 0, 1, 0 >>, 4),
              F(<< 1, 0, 0, 1 >>, 4) >>

\* system headers: header_length 6; 9 with a stream marker; 9 with a wrong
\* stream marker; 7, whose stream marker ends behind the header
SystemHeader6 == << F(<< 0, 0, 1, 187 >>, 4), F(<< 0, 6, 128, 0 >>, 4),
                    F(<< 1, 0, 32, 0 >>, 4) >>
SystemHeader9 == << F(<< 0, 0, 1, 187 >>, 4), F(<< 0, 9, 128, 0 >>, 4),
                    F(<< 1, 0, 32, 0 >>, 4), F(<< 224, 192, 0, 0 >>, 3) >>
BadSystemHeader9 == << F(<< 0, 0, 1, 187 >>, 4), F(<< 0, 9, 128, 0 >>, 4),
                       F(<< 1, 0, 32, 0 >>, 4), F(<< 224, 0, 0, 0 >>, 3) >>
SystemHeader7 == << F(<< 0, 0, 1, 187 >>, 4), F(<< 0, 7, 128, 0 >>, 4),
                    F(<< 1, 0, 32, 0 >>, 4), F(<< 224, 0, 0, 1 >>, 1) >>

\* a packet of stream id with the length field len >= 2; the end code; a
\* start code that is no system stream code
Packet(id, len) == << F(<< 0, 0, 1, id >>, 4), F(<< len \div 256, len % 256, 0, 0 >>, 4),
                      J(len - 2) >>
EndCode == << F(<< 0, 0, 1, 185 >>, 4) >>
Slice == << F(<< 0, 0, 1, 1 >>, 4) >>

SysChains ==
  { Pack \o SystemHeader6 \o Packet(224, 10) \o EndCode,
    Pack \o SystemHeader9 \o Packet(192, 2) \o Pack,
    Pack \o BadSystemHeader9,
    Pack \o SystemHeader7 \o EndCode \o EndCode,
    Pack \o Pack \o Pack \o BadPack,
    Pack \o Slice,
    BadPack,
    Pack \o Packet(224, 20) }

\* a chain behind 0..MaxPrefix bytes in a stream of one window and a half;
\* chains that the end of the stream cuts; streams without a start code,
\* shorter than a window and longer than the scan
SysStreams ==
  { Stream(<< J(j) >> \o c \o << J(3000) >>, FALSE) :
      j \in 0..MaxPrefix, c \in SysChains }
  \cup { Stream(Pack \o Packet(224, 2030), k) : k \in BOOLEAN }
  \cup { Stream(Pack \o Pack \o Pack \o Packet(224, 2006), FALSE),
         Stream(<< J(2040) >> \o << F(<< 0, 0, 1, 186 >>, 4), J(4) >>, FALSE),
         Stream(<< J(2044) >> \o << F(<< 0, 0, 1, 186 >>, 4) >>, FALSE),
         Stream(Pack \o << J(2000) >> \o << F(<< 0, 0, 1, 187 >>, 4), J(1) >>, FALSE),
         Stream(<< J(100) >>, FALSE),
         Stream(<< J(GST_MPEG_TYPEFIND_TRY_SYNC + 3000) >>, FALSE) }

(***************************************************************************)
(* The specification: one run of mpeg1_sys_type_find on one stream         *)
(***************************************************************************)
sysInit ==
  /\ stream \in SysStreams
  /\ pc = "sync"
  /\ suggestion = None
  /\ size = 0
  /\ skipped = 0
  /\ found = 0
  /\ packet_size = 0
  /\ offset = 0
  /\ winLo = 0

InitSys ==
  /\ sysInit
  /\ mp3Idle
  /\ parserIdle
  /\ qtIdle
  /\ matroskaIdle
  /\ wvIdle

\* the variables that a run of mpeg1_sys_type_find leaves alone
notSys == << mp3Locals, parserVars, qtLocals, matroskaLocals,
          wvLocals >>

NextSys ==
  \/ SysExhausted /\ UNCHANGED notSys
  \/ SysNoData /\ UNCHANGED notSys
  \/ SysSkip /\ UNCHANGED notSys
  \/ SysSync /\ UNCHANGED notSys
  \/ SysHeader /\ UNCHANGED notSys
  \/ SysHeaderBreak /\ UNCHANGED notSys
  \/ SysHeadersFound /\ UNCHANGED notSys
  \/ SysSuggest /\ UNCHANGED notSys
  \/ SysReject /\ UNCHANGED notSys

SpecSys == InitSys /\ [][NextSys]_vars

(***************************************************************************)
(* mpeg_video_stream_type_find                                             *)
(*                                                                         *)
(* data always points at the byte skipped of the stream, and size bytes of *)
(* the window are left from there on: data[i] is inside the window fetched *)
(* last when i < size.                                                     *)
(***************************************************************************)
GST_MPEGVID_TYPEFIND_TRY_PICTURES == 6
GST_MPEGVID_TYPEFIND_TRY_SYNC == 100 * 1024
GST_MPEGVID_TYPEFIND_SYNC_SIZE == 2048

\* size after the "if (size < 5)" block; 0 stands for data == NULL
VidWindowSize ==
  IF size < 5
    THEN IF PeekOk(stream, skipped, GST_MPEGVID_TYPEFIND_SYNC_SIZE)
           THEN GST_MPEGVID_TYPEFIND_SYNC_SIZE ELSE 0
    ELSE size

\* are we a sequence (0xB3) or GOP (0xB8) header?
SequenceOrGop ==
  LET d == BytesAt(stream, skipped, 4)
  IN d[1] = 0 /\ d[2] = 0 /\ d[3] = 1 /\ (d[4] = 179 \/ d[4] = 184)

Outcome(kind, sk, sz) == [kind |-> kind, sk |-> sk, sz |-> sz]

\* the sequence/GOP block: "continue" when data[3] behind the 8 bytes is
\* 0xB3, "break" when the window cannot be fetched again, else on to the
\* image header test ("through") with the new skipped and size
GopOutcomes ==
  IF ~SequenceOrGop
    THEN { Outcome("through", skipped, VidWindowSize) }
    ELSE LET sk == skipped + 8
             sz == VidWindowSize - 8
         IN { IF b3 = 179 THEN Outcome("continue", sk, sz)
              ELSE IF sz < 4
                THEN IF PeekOk(stream, sk, GST_MPEGVID_TYPEFIND_SYNC_SIZE)
                       THEN Outcome("through", sk, GST_MPEGVID_TYPEFIND_SYNC_SIZE)
                       ELSE Outcome("break", sk, GST_MPEGVID_TYPEFIND_SYNC_SIZE)
              ELSE Outcome("through", sk, sz) :
              b3 \in WindowByte(sk, 3, sz) }

\* the slice test behind an image header, data being at sk
SliceAt(sk) ==
  \/ BytesAt(stream, sk, 4) = << 0, 0, 1, 1 >>
  \/ BytesAt(stream, sk + 1, 4) = << 0, 0, 1, 1 >>

\* the image header block and the step at the end of the loop body:
\* "picture" when an image header and a slice were found, "break" when the
\* window cannot be fetched again, else "skip"
ImageOutcomes(g) ==
  { IF BytesAt(stream, g.sk, 3) = << 0, 0, 1 >> /\ d4 = 0
      THEN LET sk == g.sk + 8
               refetch == g.sz - 8 < 5
               sz == IF refetch THEN GST_MPEGVID_TYPEFIND_SYNC_SIZE
                     ELSE g.sz - 8
           IN IF refetch
                 /\ ~PeekOk(stream, sk, GST_MPEGVID_TYPEFIND_SYNC_SIZE)
                THEN Outcome("break", sk, sz)
              ELSE IF SliceAt(sk) THEN Outcome("picture", sk + 4, sz - 4)
              ELSE Outcome("skip", sk + 1, sz - 1)
      ELSE Outcome("skip", g.sk + 1, g.sz - 1) :
    d4 \in WindowByte(g.sk, 4, g.sz) }

\* what one iteration of the loop may do
IterationOutcomes ==
  UNION { IF g.kind = "through" THEN ImageOutcomes(g) ELSE {g} :
          g \in GopOutcomes }

vidFrame == << stream, offset, winLo >>

\* found >= GST_MPEGVID_TYPEFIND_TRY_PICTURES: suggest video/mpeg,
\* mpegversion 1 and return
VidSuggest ==
  /\ pc = "loop"
  /\ found >= GST_MPEGVID_TYPEFIND_TRY_PICTURES
  /\ suggestion' = << GST_TYPE_FIND_MAXIMUM - 2, "video/mpeg", 1 >>
  /\ pc' = "done"
  /\ UNCHANGED << skipped, size, found >>
  /\ UNCHANGED vidFrame

\* skipped > GST_MPEGVID_TYPEFIND_TRY_SYNC: break
VidExhausted ==
  /\ pc = "loop"
  /\ found < GST_MPEGVID_TYPEFIND_TRY_PICTURES
  /\ skipped > GST_MPEGVID_TYPEFIND_TRY_SYNC
  /\ pc' = "done"
  /\ UNCHANGED << suggestion, skipped, size, found >>
  /\ UNCHANGED vidFrame

\* the window peek at the head of the loop fails: break
VidNoData ==
  /\ pc = "loop"
  /\ found < GST_MPEGVID_TYPEFIND_TRY_PICTURES
  /\ skipped <= GST_MPEGVID_TYPEFIND_TRY_SYNC
  /\ VidWindowSize = 0
  /\ pc' = "done"
  /\ UNCHANGED << suggestion, skipped, size, found >>
  /\ UNCHANGED vidFrame

\* the rest of one iteration that ends as kind
VidIteration(kind) ==
  /\ pc = "loop"
  /\ found < GST_MPEGVID_TYPEFIND_TRY_PICTURES
  /\ skipped <= GST_MPEGVID_TYPEFIND_TRY_SYNC
  /\ VidWindowSize # 0
  /\ \E o \in IterationOutcomes :
       /\ o.kind = kind
       /\ skipped' = o.sk
       /\ size' = o.sz
  /\ found' = (IF kind = "picture" THEN found + 1 ELSE found)
  /\ pc' = (IF kind = "break" THEN "done" ELSE "loop")
  /\ UNCHANGED suggestion
  /\ UNCHANGED vidFrame

\* a sequence header follows the 8 bytes of a sequence or GOP header: continue
VidSequence == VidIteration("continue")
\* a picture: image header and slice header, found += 1
VidPicture == VidIteration("picture")
\* a window peek inside the loop body fails: break
VidBreak == VidIteration("break")
\* size--, data++, skipped++
VidSkip == VidIteration("skip")

(***************************************************************************)
(* Video streams                                                           *)
(***************************************************************************)
SequenceHeader == << F(<< 0, 0, 1, 179 >>, 8) >>
GopHeader == << F(<< 0, 0, 1, 184 >>, 8) >>
\* a picture: picture start code, 4 more bytes, slice start code; the same
\* with the slice one byte later; a picture start code without a slice
Picture == << F(<< 0, 0, 1, 0 >>, 8), F(<< 0, 0, 1, 1 >>, 4) >>
PictureLate == << F(<< 0, 0, 1, 0 >>, 9), F(<< 0, 0, 1, 1 >>, 4) >>
PictureOnly == << F(<< 0, 0, 1, 0 >>, 12) >>
\* an extension start code whose next byte is 0, and a slice
Extension == << F(<< 0, 0, 1, 181 >>, 8), F(<< 0, 0, 1, 1 >>, 4) >>

RECURSIVE Repeat(_, _)
Repeat(segs, k) == IF k = 0 THEN << >> ELSE segs \o Repeat(segs, k - 1)

VidChains ==
  { SequenceHeader \o GopHeader \o Repeat(Picture, 6),
    SequenceHeader \o SequenceHeader \o Repeat(GopHeader \o Picture, 6),
    Repeat(Picture, 5),
    Repeat(PictureLate, 6),
    Repeat(Extension, 6),
    GopHeader \o PictureOnly \o Repeat(Picture, 3) \o Repeat(Extension, 3) }

\* a chain behind 0..MaxPrefix bytes; headers at the end of the first
\* window and at the end of the stream; streams without a start code,
\* shorter than a window and longer than the scan
VidStreams ==
  { Stream(<< J(j) >> \o c \o << J(2100) >>, FALSE) :
      j \in 0..MaxPrefix, c \in VidChains }
  \cup { Stream(<< J(a) >> \o h \o Repeat(Picture, 6) \o << J(2100) >>, FALSE) :
           a \in {2036, 2040, 2042}, h \in {GopHeader, SequenceHeader} }
  \cup { Stream(<< J(2040) >> \o h, FALSE) :
           h \in {GopHeader, << F(<< 0, 0, 1, 0 >>, 8) >>} }
  \cup { Stream(<< J(2042) >> \o SequenceHeader \o SequenceHeader
                 \o << J(2100) >>, FALSE),
         Stream(<< J(2036) >> \o Picture, FALSE),
         Stream(<< J(100) >>, FALSE),
         Stream(<< J(GST_MPEGVID_TYPEFIND_TRY_SYNC + 3000) >>, FALSE) }

(***************************************************************************)
(* The specification: one run of mpeg_video_stream_type_find on one stream *)
(***************************************************************************)
vidInit ==
  /\ stream \in VidStreams
  /\ pc = "loop"
  /\ suggestion = None
  /\ size = 0
  /\ found = 0
  /\ skipped = 0
  /\ offset = 0
  /\ winLo = 0

InitVid ==
  /\ vidInit
  /\ mp3Idle
  /\ parserIdle
  /\ qtIdle
  /\ matroskaIdle
  /\ sysIdle
  /\ wvIdle

\* the variables that a run of mpeg_video_stream_type_find leaves alone
notVid == << mp3Locals, parserVars, qtLocals, matroskaLocals, sysLocals,
          wvLocals >>

NextVid ==
  \/ VidSuggest /\ UNCHANGED notVid
  \/ VidExhausted /\ UNCHANGED notVid
  \/ VidNoData /\ UNCHANGED notVid
  \/ VidSequence /\ UNCHANGED notVid
  \/ VidPicture /\ UNCHANGED notVid
  \/ VidBreak /\ UNCHANGED notVid
  \/ VidSkip /\ UNCHANGED notVid

SpecVid == InitVid /\ [][NextVid]_vars

(***************************************************************************)
(* wavpack_type_find                                                       *)
(*                                                                         *)
(* blocksize is a guint32 held as << high, low >>, 16 bits each; left is   *)
(* a gint32; offset is data minus the start of the window peeked at 0.     *)
(***************************************************************************)
WvMagic == << 119, 118, 112, 107 >>

GST_READ_UINT32_LE(b) == << b[4] * 256 + b[3], b[2] * 256 + b[1] >>

\* a + k in 32 bits, k < 2^16
Add32(a, k) ==
  << (a[1] + (a[2] + k) \div Limb) % Limb, (a[2] + k) % Limb >>

\* (blocksize * 3) / 4 in 32 bits
ThreeQuarters(a) ==
  LET low3 == 3 * a[2]
      high3 == (3 * a[1] + low3 \div Limb) % Limb
  IN << high3 \div 4, ((high3 % 4) * Limb + (low3 % Limb)) \div 4 >>

\* the cast (gint32)
Int32(a) ==
  IF a[1] >= 32768 THEN (a[1] - Limb) * Limb + a[2] ELSE a[1] * Limb + a[2]

\* gst_type_find_peek (tf, 0, 32 + blocksize) != NULL
WvPeek ==
  LET request == Add32(blocksize, 32)
  IN request[1] < 32768 /\ PeekOk(stream, 0, Int32(request))

\* 32 + blocksize < 512
WvBelowThreshold ==
  LET request == Add32(blocksize, 32)
  IN request[1] = 0 /\ request[2] < 512

\* the bytes of the window from data on
WvAvail == 32 + Int32(blocksize) - offset

\* sublen of the sub-block header d0 d1 d2 d3
Sublen(d0, d1, d2, d3) ==
  IF d0 >= 128
    THEN 2 * d1 + 512 * d2 + 131072 * d3 + 1 + 3
    ELSE 2 * d1 + 1 + 1

\* the sub-block headers data[0..3] may give: data[2] and data[3] are read
\* for a large sub-block only
WvHeaders ==
  LET d0 == ByteAt(stream, offset)
      d1 == ByteAt(stream, offset + 1)
  IN IF d0 >= 128
       THEN { << d0, d1, d2, d3 >> :
                d2 \in WindowByte(offset, 2, WvAvail),
                d3 \in WindowByte(offset, 3, WvAvail) }
       ELSE { << d0, d1, 0, 0 >> }

\* the caps of the switch on data[0] & 0x0f, "" for the default case
WvCaps(d0) ==
  IF (d0 \div 32) % 2 # 0 THEN ""
  ELSE IF d0 % 16 = 10 \/ d0 % 16 = 12 THEN "audio/x-wavpack"
  ELSE IF d0 % 16 = 11 THEN "audio/x-wavpack-correction"
  ELSE ""

wvFrame == << stream, skipped, size, found, winLo, run, first >>

\* peek (tf, 0, 32) fails: return
WvNoData ==
  /\ pc = "start"
  /\ ~PeekOk(stream, 0, 32)
  /\ pc' = "done"
  /\ UNCHANGED << suggestion, offset, blocksize, left >>
  /\ UNCHANGED wvFrame

\* the first four bytes are not "wvpk"
WvNoHeader ==
  /\ pc = "start"
  /\ PeekOk(stream, 0, 32)
  /\ BytesAt(stream, 0, 4) # WvMagic
  /\ pc' = "done"
  /\ UNCHANGED << suggestion, offset, blocksize, left >>
  /\ UNCHANGED wvFrame

\* got wavpack header: blocksize = GST_READ_UINT32_LE (data + 4)
WvHeader ==
  /\ pc = "start"
  /\ PeekOk(stream, 0, 32)
  /\ BytesAt(stream, 0, 4) = WvMagic
  /\ blocksize' = GST_READ_UINT32_LE(BytesAt(stream, 4, 4))
  /\ pc' = "fetch"
  /\ UNCHANGED << suggestion, offset, left >>
  /\ UNCHANGED wvFrame

\* the block is peeked: data += 32, left = (gint32) blocksize
WvFetched ==
  /\ pc = "fetch"
  /\ WvPeek
  /\ offset' = 32
  /\ left' = Int32(blocksize)
  /\ pc' = "walk"
  /\ UNCHANGED << suggestion, blocksize >>
  /\ UNCHANGED wvFrame

\* the peek fails below the threshold: return
WvGiveUp ==
  /\ pc = "fetch"
  /\ ~WvPeek
  /\ WvBelowThreshold
  /\ pc' = "done"
  /\ UNCHANGED << suggestion, offset, blocksize, left >>
  /\ UNCHANGED wvFrame

\* the peek fails: try 3/4 of the block
WvShrink ==
  /\ pc = "fetch"
  /\ ~WvPeek
  /\ ~WvBelowThreshold
  /\ blocksize' = ThreeQuarters(blocksize)
  /\ UNCHANGED << pc, suggestion, offset, left >>
  /\ UNCHANGED wvFrame

\* left <= 2: the walk ends without a suggestion
WvWalkEnd ==
  /\ pc = "walk"
  /\ left <= 2
  /\ pc' = "done"
  /\ UNCHANGED << suggestion, offset, blocksize, left >>
  /\ UNCHANGED wvFrame

\* sublen > blocksize: return
WvTooLong ==
  /\ pc = "walk"
  /\ left > 2
  /\ \E d \in WvHeaders : Sublen(d[1], d[2], d[3], d[4]) > Int32(blocksize)
  /\ pc' = "done"
  /\ UNCHANGED << suggestion, offset, blocksize, left >>
  /\ UNCHANGED wvFrame

\* a bitstream sub-block: suggest and return
WvSuggest ==
  /\ pc = "walk"
  /\ left > 2
  /\ \E d \in WvHeaders :
       /\ Sublen(d[1], d[2], d[3], d[4]) <= Int32(blocksize)
       /\ WvCaps(d[1]) # ""
       /\ suggestion' = << GST_TYPE_FIND_LIKELY, WvCaps(d[1]) >>
  /\ pc' = "done"
  /\ UNCHANGED << offset, blocksize, left >>
  /\ UNCHANGED wvFrame

\* another sub-block: left -= sublen, data += sublen
WvNextSubBlock ==
  /\ pc = "walk"
  /\ left > 2
  /\ \E d \in WvHeaders :
       LET sublen == Sublen(d[1], d[2], d[3], d[4])
       IN /\ sublen <= Int32(blocksize)
          /\ WvCaps(d[1]) = ""
          /\ left' = left - sublen
          /\ offset' = offset + sublen
  /\ UNCHANGED << pc, suggestion, blocksize >>
  /\ UNCHANGED wvFrame

\* the typefind function is called again on the same stream; the suggestion
\* of the first call is kept in first
WvSecondCall ==
  /\ pc = "done"
  /\ run = 1
  /\ run' = 2
  /\ first' = suggestion
  /\ suggestion' = None
  /\ pc' = "start"
  /\ offset' = 0
  /\ blocksize' = << 0, 0 >>
  /\ left' = 0
  /\ UNCHANGED << stream, skipped, size, found, winLo >>

(***************************************************************************)
(* Wavpack streams: the 32 bytes of a block header with the block size,    *)
(* and sub-blocks                                                          *)
(***************************************************************************)
MaxSubBlocks == 3       \* most sub-blocks of one block

WvBlockHeader(hi, lo) ==
  WvMagic \o << lo % 256, lo \div 256, hi % 256, hi \div 256 >> \o Zeros(24)

\* sub-blocks: small and large ones that are no bitstream, bitstream and
\* correction bitstream sub-blocks, an odd-sized flag 0x20 sub-block, and a
\* sub-block longer than every block here
SubBlocks ==
  { << 2, 0 >>, << 130, 0, 0, 0 >>, << 34, 1, 0, 0 >>,
    << 10, 0 >>, << 11, 0 >>, << 138, 0, 0, 0 >>, << 2, 200 >> }

RECURSIVE SubBlockSeqs(_)
SubBlockSeqs(k) ==
  IF k = 0 THEN { << >> }
  ELSE LET shorter == SubBlockSeqs(k - 1)
       IN shorter \cup { q \o b : q \in shorter, b \in SubBlocks }

\* blocks whose size is that of their sub-blocks or one byte less, alone and
\* with zero bytes behind them; blocks larger than the stream; block sizes near
\* 2^31 and 2^32; a stream shorter than a block header; no block header
WvStreams ==
  { StreamOfBytes(SubSeq(WvBlockHeader(0, Len(q) - cut) \o q, 1,
                         32 + Len(q) - cut) \o Zeros(e), FALSE) :
      q \in { r \in SubBlockSeqs(MaxSubBlocks) : Len(r) > 0 },
      cut \in {0, 1}, e \in {0, 4} }
  \cup { StreamOfBytes(WvBlockHeader(0, 1000) \o Zeros(k), FALSE) :
           k \in {100, 600} }
  \cup { StreamOfBytes(WvBlockHeader(hi, lo) \o Zeros(8), FALSE) :
           hi \in {65535, 32768, 24576}, lo \in {0, 65520, 65535} }
  \cup { StreamOfBytes(WvMagic \o Zeros(20), FALSE),
         StreamOfBytes(Zeros(40), FALSE) }

(***************************************************************************)
(* The specification: two calls of wavpack_type_find on one stream         *)
(***************************************************************************)
wvInit ==
  /\ stream \in WvStreams
  /\ pc = "start"
  /\ suggestion = None
  /\ offset = 0
  /\ blocksize = << 0, 0 >>
  /\ left = 0
  /\ run = 1
  /\ first = None
  /\ skipped = 0 /\ size = 0 /\ found = 0 /\ winLo = 0

InitWv ==
  /\ wvInit
  /\ mp3Idle
  /\ parserIdle
  /\ qtIdle
  /\ matroskaIdle
  /\ sysIdle

\* the variables that a run of wavpack_type_find leaves alone
notWv == << mp3Locals, parserVars, qtLocals, matroskaLocals, sysLocals >>

NextWv ==
  \/ WvNoData /\ UNCHANGED notWv
  \/ WvNoHeader /\ UNCHANGED notWv
  \/ WvHeader /\ UNCHANGED notWv
  \/ WvFetched /\ UNCHANGED notWv
  \/ WvGiveUp /\ UNCHANGED notWv
  \/ WvShrink /\ UNCHANGED notWv
  \/ WvWalkEnd /\ UNCHANGED notWv
  \/ WvTooLong /\ UNCHANGED notWv
  \/ WvSuggest /\ UNCHANGED notWv
  \/ WvNextSubBlock /\ UNCHANGED notWv
  \/ WvSecondCall /\ UNCHANGED notWv

SpecWv == InitWv /\ [][NextWv]_vars

(***************************************************************************)
(* Properties                                                              *)
(***************************************************************************)
\* the parse of header bytes h when no free-format length is known
Parse(h) == mp3_type_frame_length_from_header(GST_READ_UINT32_BE(h), -1)

\* the number of frames that lead from pos exactly to the end of s, each
\* header accepted with a bitrate index other than 0; -1 if there is no such
\* sequence
RECURSIVE FramesFrom(_, _)
FramesFrom(s, pos) ==
  IF pos = s.len THEN 0
  ELSE IF pos \in DOMAIN s.hdrs /\ Parse(s.hdrs[pos]).length > 0
    THEN LET n == FramesFrom(s, pos + Parse(s.hdrs[pos]).length)
         IN IF n = -1 THEN -1 ELSE n + 1
    ELSE -1

\* s consists only of 5 or more consecutive, mutually consistent frames
OnlyFrames(s) ==
  /\ FramesFrom(s, 0) >= GST_MP3_TYPEFIND_TRY_HEADERS
  /\ Cardinality(DOMAIN s.hdrs) = FramesFrom(s, 0)
  /\ \A p, q \in DOMAIN s.hdrs :
       /\ Parse(s.hdrs[p]).layer = Parse(s.hdrs[q]).layer
       /\ Parse(s.hdrs[p]).samplerate = Parse(s.hdrs[q]).samplerate
       /\ Parse(s.hdrs[p]).channels = Parse(s.hdrs[q]).channels

\* C1 as stated: on a stream of only N >= 5 consistent frames the scan at
\* offset 0 counts 5 headers and reports MAXIMUM.
C1_FramesGiveMaximum ==
  (phase = "start" /\ Returned /\ OnlyFrames(stream))
    => (pc = "guess" /\ found = GST_MP3_TYPEFIND_TRY_HEADERS
        /\ prob = GST_TYPE_FIND_MAXIMUM)

\* C1 amended: on a stream of only N >= 5 consistent frames with bitrate
\* index other than 0, the scan at offset 0 accepts a chain of exactly 5
\* headers at the first byte, and reports MAXIMUM (100) when peek (-128, 3)
\* gives bytes other than "TAG", 80 when that peek fails, 0 when it gives "TAG".
C1_FramesGiveMaximumIfTrailerOther ==
  (phase = "start" /\ Returned /\ OnlyFrames(stream))
    => /\ pc = "guess"
       /\ found = GST_MP3_TYPEFIND_TRY_HEADERS
       /\ skipped = 0
       /\ (Trailer(stream) = "other" => prob = GST_TYPE_FIND_MAXIMUM)
       /\ (Trailer(stream) = "none" => prob = 80)
       /\ (Trailer(stream) = "tag" => prob = 0)

C1_Witness ==
  /\ phase = "start" /\ pc = "guess"
  /\ OnlyFrames(stream)
  /\ Cardinality(DOMAIN stream.hdrs) > GST_MP3_TYPEFIND_TRY_HEADERS
  /\ found = GST_MP3_TYPEFIND_TRY_HEADERS
  /\ prob = GST_TYPE_FIND_MAXIMUM

\* C2: for a stream of known length whose last 128 bytes begin with "TAG",
\* mp3_type_find ends without a suggestion.
C2_TaggedStreamNoSuggestion ==
  (pc = "done" /\ stream.known /\ Trailer(stream) = "tag")
    => suggestion = None

\* C3: when a chain is accepted and peek (-128, 3) gives "TAG", the scan
\* returns at once with probability 0 and layer 0.
C3_TagZeroesProbability ==
  [][(pc = "check" /\ ChainAccepted /\ Trailer(stream) = "tag")
       => (pc' = "guess" /\ found_prob' = 0 /\ found_layer' = 0
           /\ skipped' = skipped)]_vars

C3_Witness ==
  /\ pc = "guess"
  /\ Trailer(stream) = "tag"
  /\ start_off > 0 /\ skipped > 0
  /\ found \in GST_MP3_TYPEFIND_MIN_HEADERS..(GST_MP3_TYPEFIND_TRY_HEADERS - 1)
  /\ found_prob = 0 /\ found_layer = 0

\* the header at the chain cursor is read from the stream (not from memory
\* outside the window) and is accepted with a length
CursorHeaderValid ==
  /\ pc = "chain"
  /\ offset >= winLo \/ ~InPlace
  /\ HeadBytes # {}
  /\ mp3_type_frame_length_from_header(
       GST_READ_UINT32_BE(BytesAt(stream, offset + start_off, 4)),
       last_free_framelen).length # 0

\* C4: a valid header whose layer, sample rate or channel count differs from
\* that of the previous header of the chain is not counted in found.
C4_ChangedHeaderNotCounted ==
  [][(CursorHeaderValid /\ found > 0
      /\ (layer_l' # layer_l \/ samplerate_l' # samplerate_l
          \/ channels_l' # channels_l))
       => found' = found]_vars

\* C5: an accepted chain on a stream whose trailer is readable and not "TAG"
\* is reported with a probability of at least MINIMUM.
C5_AcceptedAtLeastMinimum ==
  (pc = "guess" /\ Trailer(stream) = "other")
    => found_prob >= GST_TYPE_FIND_MINIMUM

\* C6: for an accepted chain on a stream whose trailer is readable and not
\* "TAG", the probability is max(1, found * 100 * (10000 - skipped) / 5 /
\* 10000) at start_off = 0, and that value halved at start_off > 0.
C6_ProbabilityFormula ==
  (pc = "guess" /\ Trailer(stream) = "other")
    => LET v == Max(1, ((found * 100 * (10000 - skipped)) \div 5) \div 10000)
       IN found_prob = IF start_off = 0 THEN v ELSE v \div 2

C6_Witness ==
  /\ pc = "guess" /\ Trailer(stream) = "other"
  /\ start_off > 0 /\ skipped > 0
  /\ found < GST_MP3_TYPEFIND_TRY_HEADERS
  /\ found_prob > 0

\* C7 as stated, its second half: a stream with a single header yields no
\* suggestion.
C7_SingleHeaderNoSuggestion ==
  (pc = "done" /\ Cardinality(DOMAIN stream.hdrs) = 1) => suggestion = None

\* the first 4 bytes of the stream are a header the parser accepts when
\* called with possible_free_framelen 0
StartHeaderValid ==
  /\ PeekOk(stream, 0, 4)
  /\ mp3_type_frame_length_from_header(
       GST_READ_UINT32_BE(BytesAt(stream, 0, 4)), 0).length # 0

\* C7 amended: a scan reports a probability above 0 only for a chain of at
\* least MIN_HEADERS headers, and mp3_type_find suggests only when one of the
\* scans reported a probability above 0 or, after a midpoint scan that
\* reported 0, when the first 4 bytes are a header the parser accepts; a
\* single valid header at offset 0 is then suggested with POSSIBLE - 10.
C7_SuggestionNeedsChainOrStartHeader ==
  [][/\ (suggestion = None /\ suggestion' # None)
          => \/ prob > 0
             \/ phase = "mid" /\ mid_prob > 0
             \/ /\ phase = "mid" /\ mid_prob = 0 /\ prob = 0
                /\ StartHeaderValid
                /\ suggestion'[1] = GST_TYPE_FIND_POSSIBLE - 10
     /\ (pc' = "guess" /\ found_prob' > 0)
          => found' >= GST_MP3_TYPEFIND_MIN_HEADERS]_vars

C7_Witness ==
  /\ pc = "done"
  /\ Cardinality(DOMAIN stream.hdrs) = 1
  /\ mid_prob = 0
  /\ suggestion # None
  /\ suggestion[1] = GST_TYPE_FIND_POSSIBLE - 10

\* C8: when both scans report a probability above 0 and different layers,
\* mp3_type_find ends without a suggestion.
C8_LayerDiscrepancyNoSuggestion ==
  [][(Returned /\ phase = "mid" /\ prob > 0 /\ mid_prob > 0
      /\ layer # mid_layer)
       => (pc' = "done" /\ suggestion' = None)]_vars

C8_Witness ==
  /\ pc = "done" /\ phase = "mid"
  /\ prob > 0 /\ mid_prob > 0
  /\ layer # mid_layer
  /\ suggestion = None

\* C9: with the length known and not 0, p < LIKELY from the scan at offset 0
\* and m > 0 from the midpoint: p > 0 and equal layers give the suggestion
\* ((p + m) / 2, layer); p = 0 gives the suggestion (m, mid_layer).
C9_AverageOrMidOnly ==
  [][(Returned /\ phase = "mid" /\ stream.known /\ stream.len # 0
      /\ prob < GST_TYPE_FIND_LIKELY /\ mid_prob > 0)
       => /\ (prob > 0 /\ layer = mid_layer)
               => suggestion' = << (prob + mid_prob) \div 2, layer >>
          /\ prob = 0 => suggestion' = << mid_prob, mid_layer >>]_vars

C9_Witness ==
  /\ pc = "done" /\ phase = "mid"
  /\ mid_prob > 0
  /\ suggestion # None
  /\ suggestion[1] < mid_prob
  /\ suggestion[2] = mid_layer

\* C10: when the free-format sentinel is met with an offset recorded, the
\* inferred frame length is the cursor minus the recorded offset, is greater
\* than 0, and the cursor moves back to the recorded offset.
C10_InferredLengthPositive ==
  [][(pc = "chain" /\ last_free_framelen' # last_free_framelen
      /\ last_free_framelen' # -1)
       => /\ last_free_framelen' = offset - last_free_offset
          /\ last_free_framelen' > 0
          /\ offset' = last_free_offset]_vars

\* the header has a reserved field: the 11 sync bits are not all set, or the
\* sample-rate index is 3, the bitrate index 15, the layer bits 00 or the
\* version bits 01
ReservedField(header) ==
  \/ ~HdrSync(header)
  \/ HdrSamplerate(header) = 3
  \/ HdrBitrate(header) = 15
  \/ HdrLayer(header) = 4
  \/ HdrVersion(header) = 1

\* C11: a header with a reserved field is rejected (length 0) and is not
\* flagged as a free-format candidate (*may_be_free_format stays unset).
C11_ReservedHeaderRejectedNotFree ==
  (p_result # None /\ ReservedField(GST_READ_UINT32_BE(p_header)))
    => (p_result.length = 0 /\ ~p_result.free)

\* scenario A: 5 frames that start with FF FB 90 44, 417 bytes apart
ScenarioA(s) ==
  /\ s.len = 5 * 417
  /\ s.hdrs = [q \in {0, 417, 834, 1251, 1668} |-> HdrBig]

\* the caps that were suggested
SuggestedCaps == Mp3Caps(suggestion[2])

\* C12 as stated: on scenario A the probe counts 5 headers and suggests a
\* descriptor whose layer, channel-count and sample-rate parameters are
\* those of the header (3, 2, 44100).
C12_ScenarioADescriptor ==
  ScenarioA(stream)
    => /\ (phase = "start" /\ Returned)
            => found = GST_MP3_TYPEFIND_TRY_HEADERS
       /\ pc = "done"
            => /\ suggestion # None
               /\ SuggestedCaps.layer = 3
               /\ "channels" \in DOMAIN SuggestedCaps
               /\ SuggestedCaps.channels = 2
               /\ "rate" \in DOMAIN SuggestedCaps
               /\ SuggestedCaps.rate = 44100

\* C12 amended: on scenario A the scan at offset 0 counts 5 headers and
\* parses layer 3, 2 channels and 44100 Hz, and the probe suggests a
\* descriptor whose only parameter taken from the header is layer = 3.
C12_ScenarioALayerOnly ==
  ScenarioA(stream)
    => /\ (phase = "start" /\ Returned)
            => /\ pc = "guess"
               /\ found = GST_MP3_TYPEFIND_TRY_HEADERS
               /\ layer_l = 3 /\ channels_l = 2 /\ samplerate_l = 44100
       /\ pc = "done"
            => /\ suggestion # None
               /\ SuggestedCaps = [layer |-> 3]

C12_Witness ==
  /\ ScenarioA(stream)
  /\ pc = "done"
  /\ suggestion = << GST_TYPE_FIND_MAXIMUM, 3 >>

\* C13: every iteration of the box walk of qt_type_find that does not stop
\* moves the cursor to a strictly larger offset.
C13_CursorStrictlyLarger ==
  [][(pc = "box" /\ pc' = "box") => Lt64(offset, offset')]_vars

\* the 64-bit big-endian integer behind the type of the box at the cursor,
\* limb by limb
ExtendedSizeAtCursor ==
  LET b == QtSizedata
  IN << 256 * b[1] + b[2], 256 * b[3] + b[4], 256 * b[5] + b[6],
        256 * b[7] + b[8] >>

\* C14: when an ISO box has the size field 00 00 00 01 and the 8 bytes behind
\* the type can be read, the walker advances the cursor by their 64-bit
\* big-endian value, and by 1 only when that value is 1.
C14_ExtendedSizeAdvance ==
  [][(/\ pc = "box" /\ QtPeek /\ QtTag \in IsoTags
      /\ SubSeq(QtData, 1, 4) = << 0, 0, 0, 1 >>
      /\ QtSizedataPeek)
       => /\ pc' = "box"
          /\ offset' = Add64(offset, ExtendedSizeAtCursor)
          /\ (ExtendedSizeAtCursor # << 0, 0, 0, 1 >>
                => offset' # Add64(offset, << 0, 0, 0, 1 >>))]_vars

\* a box with size field 1 and the 64-bit size 2^32 was walked
C14_Witness ==
  /\ pc = "box"
  /\ size = << 0, 1, 0, 0 >>
  /\ Lt64(<< 0, 0, 65535, 65535 >>, offset)

\* C15: when the size field of the first box is below 8 and not 1, no
\* suggestion is made, whatever the type of the box.
C15_InvalidFirstSizeNoSuggestion ==
  (/\ pc = "done"
   /\ stream.len >= 8
   /\ BytesAt(stream, 0, 3) = << 0, 0, 0 >>
   /\ ByteAt(stream, 3) < 8 /\ ByteAt(stream, 3) # 1)
    => suggestion = None

\* C16 as stated: the tip never decreases while boxes are walked, and the
\* suggestion made at the end carries it.
C16_TipNeverDecreases ==
  [][/\ tip' >= tip
     /\ (pc = "end" /\ tip > 0)
          => suggestion' = << tip, "video/quicktime" >>]_vars

\* C16 amended: the tip is LIKELY after one ISO box, NEARLY_CERTAIN after two
\* or more in sequence, MAXIMUM once a pnot/PICT/wide box is met and 0 once
\* a box of any other type is met, both of which end the walk; the tip at
\* the end of the walk is suggested if it is above 0.
C16_TipByBoxType ==
  [][/\ (pc = "box" /\ QtPeek /\ QtTag \in IsoTags)
          => tip' = (IF tip = 0 THEN GST_TYPE_FIND_LIKELY
                     ELSE GST_TYPE_FIND_NEARLY_CERTAIN)
     /\ (pc = "box" /\ QtPeek /\ QtTag \in QuicktimeTags)
          => (tip' = GST_TYPE_FIND_MAXIMUM /\ pc' = "end")
     /\ (pc = "box" /\ QtPeek /\ QtTag \notin IsoTags \cup QuicktimeTags)
          => (tip' = 0 /\ pc' = "end")
     /\ (pc = "box" /\ ~QtPeek) => (tip' = tip /\ pc' = "end")
     /\ pc = "end"
          => /\ tip' = tip
             /\ suggestion' = (IF tip > 0 THEN << tip, "video/quicktime" >>
                               ELSE None)]_vars

\* two boxes of 16 bytes were walked and a box of another type ended the
\* walk without a suggestion
C16_Witness ==
  /\ pc = "done"
  /\ offset = << 0, 0, 0, 32 >>
  /\ QtPeek /\ QtTag \notin IsoTags \cup QuicktimeTags
  /\ tip = 0
  /\ suggestion = None

\* the size field of width w that encodes the 32-bit value t: the value in
\* big-endian order with the length marker bit set in the first byte
EncodeSize(t, w) ==
  [i \in 1..w |->
     (IF w - i < 4 THEN (t \div 256^(w - i)) % 256 ELSE 0)
     + (IF i = 1 THEN 2^(8 - w) ELSE 0)]

\* C17: once matroska_type_find has decoded a size field of width 1..8 that
\* is in the stream, encoding the decoded value with the same width gives
\* the bytes of the field again.
C17_SizeFieldRoundTrip ==
  (pc = "value" /\ n_byte >= size /\ stream.len >= 4 + size)
    => EncodeSize(total, size) = BytesAt(stream, 4, size)

\* the stream starts with the EBML ID and a size field whose first byte is 0
NoMarkerBit ==
  /\ stream.len >= 5
  /\ BytesAt(stream, 0, 4) = EbmlId
  /\ ByteAt(stream, 4) = 0

\* C18: a size field whose first byte has no 1-bit is rejected: no byte
\* behind it is read, the header window is not requested and nothing is
\* suggested.
C18_NoMarkerBitRejected ==
  NoMarkerBit
    => /\ pc \in {"ebml", "width", "done"}
       /\ n_byte = 1
       /\ suggestion = None

C18_Witness ==
  /\ NoMarkerBit
  /\ pc = "done"
  /\ size = 9
  /\ len_mask = 0

\* C19: when the header chain stops because a peek returned no data
\* (mpeg1_parse_header returned 1) before TRY_HEADERS headers were
\* validated, mpeg1_sys_type_find makes no suggestion for it.
C19_NoDataNoSuggestion ==
  [][(pc = "check" /\ packet_size = 1
      /\ found < GST_MPEG_TYPEFIND_TRY_HEADERS)
       => suggestion' = None]_vars

\* C20: mpeg_video_stream_type_find counts a picture only where the bytes
\* are 00 00 01 00 (the image header is 12 bytes before the place the scan
\* goes on at), and suggests MAXIMUM - 2 only after 6 pictures were counted.
C20_PictureStartCodeCounted ==
  [][/\ found' # found
          => /\ found' = found + 1
             /\ BytesAt(stream, skipped' - 12, 4) = << 0, 0, 1, 0 >>
     /\ suggestion' # suggestion
          => /\ found >= GST_MPEGVID_TYPEFIND_TRY_PICTURES
             /\ suggestion' = << GST_TYPE_FIND_MAXIMUM - 2, "video/mpeg", 1 >>]_vars

\* C21: the assertions of the audio/mpeg probe hold in every reachable
\* state: found <= TRY_HEADERS behind each chain loop, the probability of a
\* valid guess is at most MAXIMUM, the layer at the suggest label is 1, 2 or
\* 3, and every probability handed to gst_type_find_suggest is in 1..100.
C21_AssertionsHold ==
  /\ found <= GST_MP3_TYPEFIND_TRY_HEADERS
  /\ pc = "guess" => found_prob \in 0..GST_TYPE_FIND_MAXIMUM
  /\ suggestion # None
       => /\ suggestion[1] \in GST_TYPE_FIND_MINIMUM..GST_TYPE_FIND_MAXIMUM
          /\ suggestion[2] \in 1..3

C21_Witness ==
  /\ pc = "done" /\ phase = "mid"
  /\ prob > 0 /\ mid_prob > 0
  /\ suggestion # None
  /\ suggestion[1] = (prob + mid_prob) \div 2

\* C22: the suggestions of a typefind function are a function of the bytes
\* and the length of its stream only: a second call on the same stream ends
\* with the suggestion of the first call.
C22_SecondCallSameSuggestion ==
  (run = 2 /\ pc = "done") => suggestion = first

\* C29: the sub-block walk of wavpack_type_find reads data[0..3] of each
\* sub-block header (data[2] and data[3] for a large sub-block only) inside
\* the window of 32 + blocksize bytes it fetched.
C29_SubBlockReadsInWindow ==
  (pc = "walk" /\ left > 2)
    => IF ByteAt(stream, offset) >= 128 THEN WvAvail >= 4 ELSE WvAvail >= 2

\* a call of mp3_type_find_at_offset is running
Scanning == pc \in {"scan", "chain", "check"}

\* C23: mp3_type_find_at_offset terminates: skipped only grows, one byte at
\* a time, and never beyond TRY_SYNC, and every call that runs returns,
\* also when a free-format restart moved the chain cursor backwards.
C23_ScanTerminates ==
  /\ [](skipped <= GST_MP3_TYPEFIND_TRY_SYNC)
  /\ [][Scanning /\ Scanning' => skipped' \in {skipped, skipped + 1}]_vars
  /\ Scanning ~> Returned

\* the chain cursor was moved back before the sync position
C23_Witness ==
  /\ pc = "chain"
  /\ last_free_framelen # -1
  /\ offset < skipped

\* the call accepted a header with a bitrate index other than 0
AcceptedWithBitrate ==
  /\ p_result # None
  /\ p_result.put
  /\ HdrBitrate(GST_READ_UINT32_BE(p_header)) # 0

ChainRestarts == pc = "chain" /\ pc' = "chain" /\ found' = found

\* C25: an accepted chain with found = k is k headers at o1 < ... < ok with
\* o1 the sync position and each next offset the one before plus its frame
\* length: the first header is counted at the sync position, every header
\* counted moves the cursor forward by its length, and no count made before
\* a free-format restart is kept.
C25_ChainIsConsecutive ==
  [][/\ (pc = "chain" /\ found = 0 /\ found' = 1) => offset = skipped
     /\ (pc = "chain" /\ found' = found + 1)
          => (offset' > offset /\ CursorHeaderValid)
     /\ ChainRestarts => found' = 0]_vars

\* C26: a header that the chain loop reads in place lies inside the window
\* fetched last, the bytes winLo up to skipped + size of the scan.
C26_InPlaceReadInsideWindow ==
  (pc = "chain" /\ InPlace)
    => (offset >= winLo /\ offset + 4 <= skipped + size)

\* the header loop is about to parse a system header whose windows can all
\* be peeked
SystemHeaderAtCursor ==
  /\ pc = "chain"
  /\ found < GST_MPEG_TYPEFIND_TRY_HEADERS
  /\ PeekOk(stream, offset, 4)
  /\ BytesAt(stream, offset, 4) = << 0, 0, 1, 187 >>
  /\ PeekOk(stream, offset + 4, 2)
  /\ PeekOk(stream, offset + 6, GST_READ_UINT16_BE(BytesAt(stream, offset + 4, 2)))

\* the checks of the system header at the cursor that are reached: every
\* check before them, in the order of the indices, may hold
SystemHeaderReads ==
  LET hl == GST_READ_UINT16_BE(BytesAt(stream, offset + 4, 2))
  IN { c \in SystemHeaderChecks(hl) :
         \A e \in SystemHeaderChecks(hl) :
           e[1] < c[1] => \E b \in WindowByte(offset + 6, e[1], hl) :
                            CheckHolds(e[2], b) }

\* C27: mpeg1_parse_header reads a system header inside the window of
\* header_length bytes it peeked: the marker-bit reads at the indices 0, 2,
\* 4 and the reads of the stream-marker loop are below header_length.
C27_SystemHeaderReadsInWindow ==
  SystemHeaderAtCursor
    => \A c \in SystemHeaderReads :
         c[1] < GST_READ_UINT16_BE(BytesAt(stream, offset + 4, 2))

\* an iteration of the scan loop is about to read through data
VidIterating ==
  /\ pc = "loop"
  /\ found < GST_MPEGVID_TYPEFIND_TRY_PICTURES
  /\ skipped <= GST_MPEGVID_TYPEFIND_TRY_SYNC
  /\ VidWindowSize # 0

\* C28: in mpeg_video_stream_type_find size never becomes negative and the
\* bytes read through data lie inside the window fetched last: data[3]
\* behind the 8 bytes of a sequence or GOP header, and data[4] of the image
\* header test when data[0..2] are 00 00 01.
C28_VidReadsInWindow ==
  /\ size >= 0
  /\ VidIterating
       => /\ SequenceOrGop => VidWindowSize - 8 >= 4
          /\ \A g \in GopOutcomes :
               (g.kind = "through" /\ BytesAt(stream, g.sk, 3) = << 0, 0, 1 >>)
                 => g.sz >= 5

\* C30: matroska_type_find reads inside the windows it peeked: the bytes of
\* the size field behind its first byte inside the 5 bytes peeked first,
\* every comparison with "matroska" inside the header window of
\* 4 + size + total bytes; and with a header payload of less than 8 bytes
\* nothing is compared and nothing suggested.
C30_MatroskaReadsInWindow ==
  /\ (pc = "value" /\ n_byte < size) => 4 + n_byte < 5
  /\ (pc = "search" /\ SearchGoesOn) => n_byte + 8 <= HeaderEnd
  /\ (pc = "search" /\ total \in 0..7) => ~SearchGoesOn
  /\ (pc \in {"done", "fault"} /\ total \in 0..7) => suggestion = None
  /\ pc # "fault"

====
